---- MODULE Spec2Model ----
(***************************************************************************)
(* A model of the component registry (src/src/manager.py,                  *)
(* ComponentManager): discovery of component classes from the source       *)
(* units of a directory, and the load / loadAll / unload / refresh         *)
(* lifecycle of the component instances.  The directory scan               *)
(* (_auto_import_components) has one caller, refresh_components, so        *)
(* discovery is part of the Refresh action.                                *)
(*                                                                         *)
(* Python dictionaries keep insertion order, and load_all_components,      *)
(* unload_all_components iterate in that order, so a dictionary is         *)
(* modelled as a sequence of [key, val] entries.                           *)
(*                                                                         *)
(* Three more parts share the module, each with its own variables and its  *)
(* own specification: the rate limiter (_apply_rate_limit of               *)
(* src/src/gemini_chat_agent.py, RateSpec), the use of a component through *)
(* the registry and through the tool executor (use_component of            *)
(* manager.py, _call_tool of src/src/ai_manager.py, UseSpec), and the      *)
(* conversation step (GeminiChatAgent.continue_autonomously, OrchSpec).    *)
(* Texts are sequences of string pieces, so that formatting a message is   *)
(* a concatenation and two texts can be compared.                          *)
(*                                                                         *)
(* The tool declarations of src/src/ai_manager.py have two specifications: *)
(* SchemaSpec applies _component_to_tool_declaration to every use method   *)
(* of a bounded shape, ToolsSpec runs _build_gemini_tools between the      *)
(* operations of the registry.  ChatSpec is the loop of                    *)
(* start_chat_interface.  OwnerSpec is the agent with the registry         *)
(* refreshed and loaded between its steps, OrchLiveSpec the agent with     *)
(* response streams that end.                                              *)
(***************************************************************************)
EXTENDS Integers, Sequences, FiniteSets, TLC

(***************************************************************************)
(* Bounds of the model.                                                    *)
(***************************************************************************)
MaxFiles == 2      \* entries os.listdir returns for the components directory
MaxInst == 3       \* component instances constructed in one behaviour
MaxGen == 2        \* directory scans (discover / refresh) in one behaviour

Files == 1..MaxFiles

(***************************************************************************)
(* Capability (class) names.                                               *)
(***************************************************************************)
Names == {"A", "B", "C"}

(***************************************************************************)
(* What a class of a source unit does when the registry drives it:         *)
(*   ok             constructor, onload and destroy all return             *)
(*   ctor_raises    the constructor raises (e.g. an abstract class)        *)
(*   onload_raises  onload raises                                          *)
(*   destroy_raises destroy raises                                         *)
(***************************************************************************)
ClassDef(n, b) == [name |-> n, beh |-> b]

(***************************************************************************)
(* What a position of the directory listing can hold.  py: an entry whose  *)
(* name ends in ".py" and is not "__init__.py" (NoUnit: any other entry,   *)
(* or none); ok: executing the module raises nothing; classes: the         *)
(* BaseComponent subclasses among the module's members, in the order       *)
(* inspect.getmembers yields them (sorted by name).                        *)
(***************************************************************************)
NoUnit == [py |-> FALSE, ok |-> FALSE, classes |-> <<>>]
BadUnit == [py |-> TRUE, ok |-> FALSE, classes |-> <<>>]
Unit(cs) == [py |-> TRUE, ok |-> TRUE, classes |-> cs]

Units ==
    { NoUnit, BadUnit,
      Unit(<<ClassDef("A", "ok"), ClassDef("C", "ctor_raises")>>),
      Unit(<<ClassDef("A", "onload_raises"), ClassDef("B", "destroy_raises")>>) }

Dirs == [Files -> Units]
NoDir == [f \in Files |-> NoUnit]

VARIABLES
    dirExists,   \* os.path.isdir(components_dir)
    dir,         \* the directory's contents as the latest scan listed them
    sysModules,  \* the module names (files) bound in sys.modules
    avail,       \* _available_component_classes: entries name -> class
    loaded,      \* _loaded_components: entries name -> instance id
    insts,       \* every instance constructed so far, by id, with its hook counts
    gen,         \* number of directory scans made so far
    lastOp       \* the registry operation that ran last and its outcome

regVars == <<dirExists, dir, sysModules, avail, loaded, insts, gen, lastOp>>
\* The registry but for its active set.
regRest == <<dirExists, dir, sysModules, avail, insts, gen, lastOp>>

\* The rate limiter (src/src/gemini_chat_agent.py, _apply_rate_limit).
VARIABLES
    now,                 \* what time.time() returns
    request_timestamps,  \* the deque of tracked request times, oldest first
    admitted,            \* every timestamp _apply_rate_limit has recorded, in order
    lastAcq              \* the latest _apply_rate_limit call and how it went

rateVars == <<now, request_timestamps, admitted, lastAcq>>

\* Using a component (ComponentManager.use_component, AIComponentManager._call_tool).
VARIABLES
    lastUse              \* the latest use of a component and what the caller got

useVars == <<lastUse>>

\* The tool declarations (src/src/ai_manager.py, _component_to_tool_declaration,
\* _build_gemini_tools).
VARIABLES
    use_method,          \* what getattr(instance, "use", None) gave the builder
    declaration,         \* what _component_to_tool_declaration returned for it
    available_tools,     \* the list _build_gemini_tools returned last
    lastBuild,           \* the latest _build_gemini_tools call: what it was given
    chat_pc,             \* where start_chat_interface stands
    cli_history,         \* AIComponentManager.chat_history
    lastInput,           \* the latest line read by the loop and what it led to
    interrupt_message    \* what the caller passed to the latest continue_autonomously

buildVars == <<use_method, declaration, available_tools, lastBuild>>
chatVars == <<chat_pc, cli_history, lastInput>>
aiVars == <<buildVars, chatVars, interrupt_message>>

\* The conversation agent (src/src/gemini_chat_agent.py, GeminiChatAgent).
VARIABLES
    chat_history,          \* the conversation: a sequence of Content turns
    callback,              \* _tool_executor_callback is set
    pc,                    \* where continue_autonomously stands
    effective_user_message,
    model_response_parts,  \* the text parts buffered by the running step
    pending,               \* function calls of the follow-up chunk not reached yet
    pre,                   \* chat_history when the running (or last) step was called
    events,                \* the acquires, exchanges and tool runs of that step
    calls,                 \* the function calls the backend delivered in that step
    frags,                 \* the number of chunks the backend has delivered
    steps,                 \* the number of steps started
    lastStep,              \* how the running (or last) step stands
    deliv,                 \* the chunks delivered in that step, in arrival order
    open                   \* the exchanges of the step whose response stream is
                           \* not finished: stream, follow_up_stream, final_gen_stream

orchVars ==
    <<chat_history, callback, pc, effective_user_message, model_response_parts,
      pending, pre, events, calls, frags, steps, lastStep, deliv, open>>

(***************************************************************************)
(* Ordered dictionaries.                                                   *)
(***************************************************************************)
Keys(d) == {d[i].key : i \in 1..Len(d)}
KeySeq(d) == [i \in 1..Len(d) |-> d[i].key]
Has(d, k) == \E i \in 1..Len(d) : d[i].key = k
Get(d, k) == d[CHOOSE i \in 1..Len(d) : d[i].key = k].val
DictSet(d, k, v) ==
    IF Has(d, k)
    THEN [i \in 1..Len(d) |-> IF d[i].key = k THEN [key |-> k, val |-> v] ELSE d[i]]
    ELSE Append(d, [key |-> k, val |-> v])
DictPop(d, k) == SelectSeq(d, LAMBDA e : e.key # k)

(***************************************************************************)
(* Discovery.                                                              *)
(***************************************************************************)
\* The class object a scan creates: the class of unit f as executed by scan g.
ClassOf(c, f, g) == [name |-> c.name, beh |-> c.beh, file |-> f, gen |-> g]

\* The module name of the file at position f of the listing: filename[:-3].
\* The first file is named after a class it may define, the others are not.
ModuleNames == <<"A", "example", "file_reader", "weather_component">>
ModuleName(f) == ModuleNames[f]

\* A class that leaves out one of onload, use, destroy is abstract: the
\* abstract methods of BaseComponent make its construction raise TypeError.
\* These are the classes of the model whose constructor raises.
Incomplete(cls) == cls.beh = "ctor_raises"

\* One BaseComponent subclass found in a module: a name already registered is
\* skipped with a warning, a new name is registered.
\* Faulty variant: a later class of the same name replaces the registered one.
register_class_overwrite(av, cls) == DictSet(av, cls.name, cls)

\* Faulty variant: a class is registered only under the name of its module.
register_class_name_match(av, cls) ==
    IF Has(av, cls.name) \/ cls.name # ModuleName(cls.file)
    THEN av
    ELSE DictSet(av, cls.name, cls)

\* Faulty variant: a class that lacks one of the three operations is skipped.
register_class_complete_only(av, cls) ==
    IF Has(av, cls.name) \/ Incomplete(cls) THEN av ELSE DictSet(av, cls.name, cls)

register_class(av, cls) ==
    IF Has(av, cls.name) THEN av ELSE DictSet(av, cls.name, cls)

\* _discover_component_classes: every class among the module's members.
RECURSIVE discover_component_classes(_, _, _, _)
discover_component_classes(av, cs, f, g) ==
    IF cs = <<>>
    THEN av
    ELSE discover_component_classes(
             register_class(av, ClassOf(Head(cs), f, g)), Tail(cs), f, g)

\* The body of the scan loop for one directory entry: a file that is not a
\* component module is passed over; executing a module that raises is caught
\* and logged, and nothing of the module is registered.
\* Faulty variant: no try/except around the import, a failing module ends the scan.
import_unit_no_catch(st, u, f, g) ==
    IF ~u.py
    THEN st
    ELSE LET mods == st.mods \cup {f}
         IN IF u.ok
            THEN [st EXCEPT !.avail = discover_component_classes(st.avail, u.classes, f, g),
                            !.mods = mods]
            ELSE [st EXCEPT !.mods = mods, !.raised = TRUE]

import_unit(st, u, f, g) ==
    IF ~u.py
    THEN st
    ELSE LET mods == st.mods \cup {f}
         IN IF u.ok
            THEN [st EXCEPT !.avail = discover_component_classes(st.avail, u.classes, f, g),
                            !.mods = mods]
            ELSE [st EXCEPT !.mods = mods]

\* The scan loop over os.listdir, in listing order; an exception that escapes
\* the loop body ends the scan.
RECURSIVE import_from(_, _, _, _)
import_from(st, d, f, g) ==
    IF f > MaxFiles \/ st.raised
    THEN st
    ELSE import_from(import_unit(st, d[f], f, g), d, f + 1, g)

\* _auto_import_components: a missing directory is a warning and nothing else.
auto_import_components(av, mods, e, d, g) ==
    IF ~e
    THEN [avail |-> av, mods |-> mods, raised |-> FALSE, branch |-> "no_directory"]
    ELSE import_from([avail |-> av, mods |-> mods, raised |-> FALSE, branch |-> "scanned"],
                     d, 1, g)

(***************************************************************************)
(* Loading and unloading, as steps on the pair (loaded, insts).            *)
(***************************************************************************)
\* An instance: its class, and how often each hook has been called on it.
\* Once the registry holds no reference to an instance, only its hook counts
\* are kept.
NoClass == [name |-> "-", beh |-> "-", file |-> 0, gen |-> 0]
NewInst(cls) == [cls |-> cls, onloads |-> 0, destroys |-> 0]
Dropped(i) == [i EXCEPT !.cls = NoClass]

\* The second half of load_component: look the class up, construct it, call
\* onload, register the instance.  Whatever the constructor or onload raises
\* is caught and logged, and None (0) is returned.
\* Faulty variant: the instance is registered before onload is called.
construct_and_load_register_first(av, L, I, n) ==
    IF ~Has(av, n)
    THEN [loaded |-> L, insts |-> I, ret |-> 0, raised |-> FALSE,
          branch |-> "not_found"]
    ELSE LET cls == Get(av, n)
             id == Len(I) + 1
             I1 == Append(I, [NewInst(cls) EXCEPT !.onloads = 1])
         IN IF cls.beh = "ctor_raises"
            THEN [loaded |-> L, insts |-> I, ret |-> 0, raised |-> FALSE,
                  branch |-> "load_failed"]
            ELSE IF cls.beh = "onload_raises"
            THEN [loaded |-> DictSet(L, n, id), insts |-> I1, ret |-> 0,
                  raised |-> FALSE, branch |-> "load_failed"]
            ELSE [loaded |-> DictSet(L, n, id), insts |-> I1, ret |-> id,
                  raised |-> FALSE, branch |-> "loaded"]

\* Faulty variant: an instance whose onload raised is cleaned up with destroy.
construct_and_load_destroy_on_failure(av, L, I, n) ==
    IF ~Has(av, n)
    THEN [loaded |-> L, insts |-> I, ret |-> 0, raised |-> FALSE,
          branch |-> "not_found"]
    ELSE LET cls == Get(av, n)
             id == Len(I) + 1
             I1 == Append(I, [NewInst(cls) EXCEPT !.onloads = 1])
         IN IF cls.beh = "ctor_raises"
            THEN [loaded |-> L, insts |-> I, ret |-> 0, raised |-> FALSE,
                  branch |-> "load_failed"]
            ELSE IF cls.beh = "onload_raises"
            THEN [loaded |-> L,
                  insts |-> Append(I, Dropped([I1[id] EXCEPT !.destroys = 1])),
                  ret |-> 0, raised |-> FALSE, branch |-> "load_failed"]
            ELSE [loaded |-> DictSet(L, n, id), insts |-> I1, ret |-> id,
                  raised |-> FALSE, branch |-> "loaded"]

\* Faulty variant: a name with no registered class gets a plain component.
construct_and_load_default_class(av, L, I, n) ==
    IF ~Has(av, n)
    THEN [loaded |-> DictSet(L, n, Len(I) + 1),
          insts |-> Append(I, [NewInst(ClassDef(n, "ok")) EXCEPT !.onloads = 1]),
          ret |-> Len(I) + 1, raised |-> FALSE, branch |-> "loaded"]
    ELSE LET cls == Get(av, n)
             id == Len(I) + 1
             I1 == Append(I, [NewInst(cls) EXCEPT !.onloads = 1])
         IN IF cls.beh = "ctor_raises"
            THEN [loaded |-> L, insts |-> I, ret |-> 0, raised |-> FALSE,
                  branch |-> "load_failed"]
            ELSE IF cls.beh = "onload_raises"
            THEN [loaded |-> L, insts |-> Append(I, Dropped(I1[id])), ret |-> 0,
                  raised |-> FALSE, branch |-> "load_failed"]
            ELSE [loaded |-> DictSet(L, n, id), insts |-> I1, ret |-> id,
                  raised |-> FALSE, branch |-> "loaded"]

construct_and_load(av, L, I, n) ==
    IF ~Has(av, n)
    THEN [loaded |-> L, insts |-> I, ret |-> 0, raised |-> FALSE,
          branch |-> "not_found"]
    ELSE LET cls == Get(av, n)
             id == Len(I) + 1
             I1 == Append(I, [NewInst(cls) EXCEPT !.onloads = 1])
         IN IF cls.beh = "ctor_raises"
            THEN [loaded |-> L, insts |-> I, ret |-> 0, raised |-> FALSE,
                  branch |-> "load_failed"]
            ELSE IF cls.beh = "onload_raises"
            THEN [loaded |-> L, insts |-> Append(I, Dropped(I1[id])), ret |-> 0,
                  raised |-> FALSE, branch |-> "load_failed"]
            ELSE [loaded |-> DictSet(L, n, id), insts |-> I1, ret |-> id,
                  raised |-> FALSE, branch |-> "loaded"]

\* load_component: the loaded instance if there is one, a new one otherwise.
\* Faulty variant: no test for an instance that is loaded already.
load_component_no_cache(av, L, I, n) == construct_and_load(av, L, I, n)

load_component(av, L, I, n) ==
    IF Has(L, n)
    THEN [loaded |-> L, insts |-> I, ret |-> Get(L, n), raised |-> FALSE,
          branch |-> "already_loaded"]
    ELSE construct_and_load(av, L, I, n)

\* load_all_components: every discovered name, in registration order, that is
\* not loaded yet.
\* Faulty variant: the first failing load ends the loop.
RECURSIVE load_all_from_abort(_, _, _)
load_all_from_abort(av, ks, st) ==
    IF ks = <<>> \/ st.raised
    THEN st
    ELSE LET n == Head(ks)
             r == load_component(av, st.loaded, st.insts, n)
         IN load_all_from_abort(av, Tail(ks),
                IF Has(st.loaded, n)
                THEN st
                ELSE [loaded |-> r.loaded, insts |-> r.insts,
                      raised |-> r.branch = "load_failed"])

RECURSIVE load_all_from(_, _, _)
load_all_from(av, ks, st) ==
    IF ks = <<>> \/ st.raised
    THEN st
    ELSE LET n == Head(ks)
             r == load_component(av, st.loaded, st.insts, n)
         IN load_all_from(av, Tail(ks),
                IF Has(st.loaded, n)
                THEN st
                ELSE [loaded |-> r.loaded, insts |-> r.insts, raised |-> r.raised])

load_all_components(av, L, I) ==
    IF av = <<>>
    THEN [loaded |-> L, insts |-> I, raised |-> FALSE]
    ELSE load_all_from(av, KeySeq(av), [loaded |-> L, insts |-> I, raised |-> FALSE])

\* unload_component: the entry is popped first, then destroy is called on the
\* popped instance; what destroy raises is caught and logged.
\* Faulty variant: destroy is called first and the entry is removed only when
\* destroy returned.
unload_component_destroy_first(L, I, n) ==
    IF Has(L, n)
    THEN LET id == Get(L, n)
         IN IF I[id].cls.beh = "destroy_raises"
            THEN [loaded |-> L, insts |-> [I EXCEPT ![id].destroys = @ + 1],
                  raised |-> FALSE, branch |-> "destroy_failed"]
            ELSE [loaded |-> DictPop(L, n),
                  insts |-> [I EXCEPT ![id] = Dropped([@ EXCEPT !.destroys = @ + 1])],
                  raised |-> FALSE, branch |-> "unloaded"]
    ELSE [loaded |-> L, insts |-> I, raised |-> FALSE, branch |-> "not_loaded"]

\* Faulty variant: the entry is deleted without a default, a missing name raises.
unload_component_keyerror(L, I, n) ==
    IF Has(L, n)
    THEN LET id == Get(L, n)
         IN [loaded |-> DictPop(L, n),
             insts |-> [I EXCEPT ![id] = Dropped([@ EXCEPT !.destroys = @ + 1])],
             raised |-> FALSE,
             branch |-> IF I[id].cls.beh = "destroy_raises"
                        THEN "destroy_failed" ELSE "unloaded"]
    ELSE [loaded |-> L, insts |-> I, raised |-> TRUE, branch |-> "not_loaded"]

\* Faulty variant: destroy is called but the entry stays registered.
unload_component_no_pop(L, I, n) ==
    IF Has(L, n)
    THEN LET id == Get(L, n)
         IN [loaded |-> L, insts |-> [I EXCEPT ![id].destroys = @ + 1],
             raised |-> FALSE,
             branch |-> IF I[id].cls.beh = "destroy_raises"
                        THEN "destroy_failed" ELSE "unloaded"]
    ELSE [loaded |-> L, insts |-> I, raised |-> FALSE, branch |-> "not_loaded"]

unload_component(L, I, n) ==
    IF Has(L, n)
    THEN LET id == Get(L, n)
             I1 == [I EXCEPT ![id] = Dropped([@ EXCEPT !.destroys = @ + 1])]
         IN [loaded |-> DictPop(L, n), insts |-> I1, raised |-> FALSE,
             branch |-> IF I[id].cls.beh = "destroy_raises"
                        THEN "destroy_failed" ELSE "unloaded"]
    ELSE [loaded |-> L, insts |-> I, raised |-> FALSE, branch |-> "not_loaded"]

\* unload_all_components: over a copy of the keys.
\* Faulty variant: a component whose destroy raises stays loaded.
RECURSIVE unload_all_from_keep_failing(_, _)
unload_all_from_keep_failing(ks, st) ==
    IF ks = <<>> \/ st.raised
    THEN st
    ELSE LET r == unload_component(st.loaded, st.insts, Head(ks))
         IN unload_all_from_keep_failing(Tail(ks),
                IF r.branch = "destroy_failed"
                THEN [loaded |-> st.loaded, insts |-> r.insts, raised |-> r.raised]
                ELSE [loaded |-> r.loaded, insts |-> r.insts, raised |-> r.raised])

RECURSIVE unload_all_from(_, _)
unload_all_from(ks, st) ==
    IF ks = <<>> \/ st.raised
    THEN st
    ELSE LET r == unload_component(st.loaded, st.insts, Head(ks))
         IN unload_all_from(Tail(ks),
                [loaded |-> r.loaded, insts |-> r.insts, raised |-> r.raised])

unload_all_components(L, I) ==
    IF L = <<>>
    THEN [loaded |-> L, insts |-> I, raised |-> FALSE]
    ELSE unload_all_from(KeySeq(L), [loaded |-> L, insts |-> I, raised |-> FALSE])

\* refresh_components: unload everything, drop the registered classes, drop
\* the listed component modules from sys.modules, scan again.  os.listdir runs
\* before the scan's own directory test, so a missing directory raises here.
\* Faulty variant: the registered classes are not discarded before the scan.
refresh_components_keep_classes(av, L, I, mods, e, d, g) ==
    LET u == unload_all_components(L, I)
        base == [loaded |-> u.loaded, insts |-> u.insts, avail |-> av,
                 mods |-> mods, raised |-> u.raised, branch |-> "unloading_failed"]
    IN IF u.raised
       THEN base
       ELSE IF ~e
       THEN [base EXCEPT !.raised = TRUE, !.branch = "listdir_raised"]
       ELSE LET kept == mods \ {f \in Files : d[f].py}
                s == auto_import_components(av, kept, e, d, g)
            IN [base EXCEPT !.avail = s.avail, !.mods = s.mods,
                            !.raised = s.raised, !.branch = s.branch]

\* Faulty variant: the loaded instances are not unloaded before the scan.
refresh_components_no_unload(av, L, I, mods, e, d, g) ==
    LET base == [loaded |-> L, insts |-> I, avail |-> <<>>,
                 mods |-> mods, raised |-> FALSE, branch |-> "-"]
    IN IF ~e
       THEN [base EXCEPT !.raised = TRUE, !.branch = "listdir_raised"]
       ELSE LET kept == mods \ {f \in Files : d[f].py}
                s == auto_import_components(<<>>, kept, e, d, g)
            IN [base EXCEPT !.avail = s.avail, !.mods = s.mods,
                            !.raised = s.raised, !.branch = s.branch]

refresh_components(av, L, I, mods, e, d, g) ==
    LET u == unload_all_components(L, I)
        base == [loaded |-> u.loaded, insts |-> u.insts, avail |-> <<>>,
                 mods |-> mods, raised |-> u.raised, branch |-> "unloading_failed"]
    IN IF u.raised
       THEN [base EXCEPT !.avail = av]
       ELSE IF ~e
       THEN [base EXCEPT !.raised = TRUE, !.branch = "listdir_raised"]
       ELSE LET kept == mods \ {f \in Files : d[f].py}
                s == auto_import_components(<<>>, kept, e, d, g)
            IN [base EXCEPT !.avail = s.avail, !.mods = s.mods,
                            !.raised = s.raised, !.branch = s.branch]

(***************************************************************************)
(* The registry as a state machine.  Every action is one call of a public  *)
(* operation of ComponentManager, run to completion (the program is        *)
(* single-threaded); lastOp records which call it was and how it ended.    *)
(***************************************************************************)
Outcome(op, n, ret, raised, branch, ar) ==
    [op |-> op, name |-> n, ret |-> ret, raised |-> raised, branch |-> branch,
     afterRefresh |-> ar]

RegInit ==
    /\ dirExists = FALSE
    /\ dir = NoDir
    /\ sysModules = {}
    /\ avail = <<>>
    /\ loaded = <<>>
    /\ insts = <<>>
    /\ gen = 0
    /\ lastOp = Outcome("init", "-", 0, FALSE, "-", FALSE)

\* load(name)
Load(n) ==
    \E r \in {load_component(avail, loaded, insts, n)} :
       /\ Len(r.insts) <= MaxInst
       /\ loaded' = r.loaded
       /\ insts' = r.insts
       /\ lastOp' = Outcome("load", n, r.ret, r.raised, r.branch, FALSE)
       /\ UNCHANGED <<dirExists, dir, sysModules, avail, gen>>
       /\ UNCHANGED <<rateVars, useVars, aiVars, orchVars>>

\* loadAll()
LoadAll ==
    \E r \in {load_all_components(avail, loaded, insts)} :
       /\ Len(r.insts) <= MaxInst
       /\ loaded' = r.loaded
       /\ insts' = r.insts
       /\ lastOp' = Outcome("loadAll", "-", 0, r.raised, "-",
                            lastOp.op = "refresh" /\ ~lastOp.raised)
       /\ UNCHANGED <<dirExists, dir, sysModules, avail, gen>>
       /\ UNCHANGED <<rateVars, useVars, aiVars, orchVars>>

\* unload(name)
Unload(n) ==
    \E r \in {unload_component(loaded, insts, n)} :
       /\ loaded' = r.loaded
       /\ insts' = r.insts
       /\ lastOp' = Outcome("unload", n, 0, r.raised, r.branch, FALSE)
       /\ UNCHANGED <<dirExists, dir, sysModules, avail, gen>>
       /\ UNCHANGED <<rateVars, useVars, aiVars, orchVars>>

\* unloadAll()
UnloadAll ==
    \E r \in {unload_all_components(loaded, insts)} :
       /\ loaded' = r.loaded
       /\ insts' = r.insts
       /\ lastOp' = Outcome("unloadAll", "-", 0, r.raised, "-", FALSE)
       /\ UNCHANGED <<dirExists, dir, sysModules, avail, gen>>
       /\ UNCHANGED <<rateVars, useVars, aiVars, orchVars>>

\* refresh(): the directory is listed as the file system holds it at the time
\* of the call (e: it exists; d: its entries).
Refresh(e, d) ==
    /\ gen < MaxGen
    /\ e \/ d = NoDir
    /\ \E r \in {refresh_components(avail, loaded, insts, sysModules, e, d, gen + 1)} :
          /\ avail' = r.avail
          /\ sysModules' = r.mods
          /\ loaded' = r.loaded
          /\ insts' = r.insts
          /\ lastOp' = Outcome("refresh", "-", 0, r.raised, r.branch, FALSE)
    /\ dirExists' = e
    /\ dir' = d
    /\ gen' = gen + 1
    /\ UNCHANGED <<rateVars, useVars, aiVars, orchVars>>

RegNext ==
    \/ \E n \in Names : Load(n)
    \/ LoadAll
    \/ \E n \in Names : Unload(n)
    \/ UnloadAll
    \/ \E e \in BOOLEAN, d \in Dirs : Refresh(e, d)


(***************************************************************************)
(* What a directory listing implies.                                       *)
(***************************************************************************)
ActiveNames == Keys(loaded)
AvailNames == Keys(avail)

\* Unit u executes and a class named n is among its members.
Declares(u, n) ==
    u.py /\ u.ok /\ \E i \in 1..Len(u.classes) : u.classes[i].name = n

DefIn(u, n) == u.classes[CHOOSE i \in 1..Len(u.classes) : u.classes[i].name = n]

DeclaredNames(d) == {n \in Names : \E f \in Files : Declares(d[f], n)}

\* The first position of the listing whose unit declares n.
FirstDeclaring(d, n) ==
    CHOOSE f \in Files : Declares(d[f], n) /\ \A h \in 1..(f - 1) : ~Declares(d[h], n)

Loadable(b) == b \in {"ok", "destroy_raises"}

\* The names a listing implies to be active once everything is loaded.
ExpectedActive(d) ==
    {n \in DeclaredNames(d) : Loadable(DefIn(d[FirstDeclaring(d, n)], n).beh)}

\* C1: the registry holds at most one descriptor per capability name, and the
\* descriptor of a name is the class of the first-scanned unit that declares
\* it: a unit scanned later never replaces it.
C1_UniqueFirstWins ==
    /\ \A i, j \in 1..Len(avail) : avail[i].key = avail[j].key => i = j
    /\ \A i \in 1..Len(avail) :
          LET c == avail[i].val
          IN /\ c.name = avail[i].key
             /\ c.name \in DeclaredNames(dir)
             /\ c.file = FirstDeclaring(dir, c.name)
             /\ c.beh = DefIn(dir[c.file], c.name).beh
             /\ c.gen = gen

C1_Witness ==
    /\ lastOp.op = "refresh"
    /\ \E f, h \in Files :
          /\ f < h
          /\ Declares(dir[f], "A") /\ Declares(dir[h], "A")
          /\ dir[f] # dir[h]
          /\ Has(avail, "A") /\ Get(avail, "A").file = f

\* C2: load(name) of a name that is already Active returns the instance that
\* is registered under the name, constructs nothing, calls no hook, and leaves
\* the active set as it is.
C2_LoadIdempotent ==
    [][ \A n \in Names :
          (lastOp'.op = "load" /\ lastOp'.name = n /\ Has(loaded, n)) =>
             /\ lastOp'.ret = Get(loaded, n)
             /\ ~lastOp'.raised
             /\ insts' = insts
             /\ loaded' = loaded ]_regVars

C2_Witness ==
    /\ lastOp.op = "load"
    /\ lastOp.branch = "already_loaded"
    /\ Has(loaded, lastOp.name)
    /\ lastOp.ret = Get(loaded, lastOp.name)
    /\ insts[lastOp.ret].onloads = 1

\* C3: when the constructor or onload of the class raises during load(name),
\* load returns no instance, nothing is propagated, name is not Active
\* afterwards, and every other Active component, every descriptor and every
\* instance that existed before is as it was.
C3_FailedLoadIsolated ==
    [][ \A n \in Names :
          ( /\ lastOp'.op = "load" /\ lastOp'.name = n
            /\ ~Has(loaded, n) /\ Has(avail, n)
            /\ ~Loadable(Get(avail, n).beh) ) =>
             /\ lastOp'.ret = 0
             /\ ~lastOp'.raised
             /\ ~Has(loaded', n)
             /\ loaded' = loaded
             /\ avail' = avail
             /\ \A i \in 1..Len(insts) : insts'[i] = insts[i] ]_regVars

\* onload raised (an instance was constructed and dropped) while another
\* component was Active
C3_Witness ==
    /\ lastOp.op = "load"
    /\ lastOp.branch = "load_failed"
    /\ Has(avail, lastOp.name)
    /\ Get(avail, lastOp.name).beh = "onload_raises"
    /\ loaded # <<>>
    /\ insts[Len(insts)] = [cls |-> NoClass, onloads |-> 1, destroys |-> 0]

\* C4: unload(name) of an Active component calls destroy on its instance and
\* the name is not Active afterwards, whether destroy returned or raised;
\* nothing is propagated and the other Active components are untouched.
C4_UnloadAlwaysRemoves ==
    [][ \A n \in Names :
          (lastOp'.op = "unload" /\ lastOp'.name = n /\ Has(loaded, n)) =>
             /\ insts'[Get(loaded, n)].destroys = insts[Get(loaded, n)].destroys + 1
             /\ ~Has(loaded', n)
             /\ ~lastOp'.raised
             /\ \A m \in Names \ {n} :
                   Has(loaded, m) =>
                      /\ Has(loaded', m)
                      /\ Get(loaded', m) = Get(loaded, m)
                      /\ insts'[Get(loaded, m)] = insts[Get(loaded, m)] ]_regVars

\* destroy raised while another component was Active
C4_Witness ==
    /\ lastOp.op = "unload"
    /\ lastOp.branch = "destroy_failed"
    /\ ~Has(loaded, lastOp.name)
    /\ loaded # <<>>

\* C5: unload(name) of a name that is not Active raises nothing, calls no
\* hook, and leaves the active set and the descriptors as they are.
C5_UnloadInactiveNoOp ==
    [][ (lastOp'.op = "unload" /\ ~Has(loaded, lastOp'.name)) =>
           /\ ~lastOp'.raised
           /\ insts' = insts
           /\ loaded' = loaded
           /\ avail' = avail ]_regVars

\* the name was never discovered, or was unloaded before
C5_Witness ==
    /\ lastOp.op = "unload"
    /\ lastOp.branch = "not_loaded"
    /\ ~lastOp.raised
    /\ loaded # <<>>
    /\ \E i \in 1..Len(insts) : insts[i].destroys = 1

\* C6: after refresh() followed by loadAll(), the Active names are exactly the
\* loadable capabilities of the directory as the refresh listed it, and the
\* descriptors exactly the names it declares, whatever was discovered or
\* Active before.
C6_RefreshLoadAllExact ==
    (lastOp.op = "loadAll" /\ lastOp.afterRefresh) =>
        /\ ActiveNames = ExpectedActive(dir)
        /\ AvailNames = DeclaredNames(dir)
        /\ \A i \in 1..Len(loaded) : insts[loaded[i].val].cls.gen = gen

\* second refresh: components of the earlier listing were Active and have been
\* destroyed, and the new listing yields two Active components
C6_Witness ==
    /\ lastOp.op = "loadAll" /\ lastOp.afterRefresh
    /\ gen = 2
    /\ \E i \in 1..Len(insts) : insts[i].destroys = 1
    /\ Cardinality(ActiveNames) = 2
    /\ Cardinality(AvailNames) = 3

\* C7: after loadAll() every descriptor whose constructor and onload succeed is
\* Active, wherever the failing descriptors stand in the iteration order, and
\* a component that was Active before keeps its instance.
C7_LoadAllIndependent ==
    /\ [](lastOp.op = "loadAll" =>
             \A i \in 1..Len(avail) :
                 Loadable(avail[i].val.beh) => Has(loaded, avail[i].key))
    /\ [][ lastOp'.op = "loadAll" =>
             \A n \in Names :
                 Has(loaded, n) =>
                    /\ Has(loaded', n)
                    /\ Get(loaded', n) = Get(loaded, n)
                    /\ insts'[Get(loaded, n)] = insts[Get(loaded, n)] ]_regVars

\* a failing descriptor stands between two loadable ones, one of which was
\* Active before the call
C7_Witness ==
    /\ lastOp.op = "loadAll"
    /\ Len(avail) = 3
    /\ ~Loadable(avail[2].val.beh)
    /\ Has(loaded, avail[1].key) /\ Has(loaded, avail[3].key)
    /\ Get(loaded, avail[3].key) < Get(loaded, avail[1].key)

\* C8: a unit whose import fails contributes no descriptor, nothing is raised
\* to the caller of refresh, and every class of every valid unit of the
\* listing, before or after the bad one, has a descriptor.
C8_BadUnitSkipped ==
    (lastOp.op = "refresh" /\ dirExists) =>
        /\ ~lastOp.raised
        /\ \A f \in Files :
              (dir[f].py /\ dir[f].ok) =>
                  \A i \in 1..Len(dir[f].classes) : Has(avail, dir[f].classes[i].name)
        /\ \A i \in 1..Len(avail) :
              LET u == dir[avail[i].val.file]
              IN u.py /\ u.ok

\* a bad unit is listed before a valid one
C8_Witness ==
    /\ lastOp.op = "refresh"
    /\ \E f, h \in Files :
          /\ f < h
          /\ dir[f] = BadUnit
          /\ dir[h].py /\ dir[h].ok
          /\ \E i \in 1..Len(avail) : avail[i].val.file = h

\* C9: every Active name is the name of exactly one descriptor, and the Active
\* instance was constructed from that descriptor's class.
C9_ActiveResolves ==
    \A i \in 1..Len(loaded) :
        /\ Cardinality({j \in 1..Len(avail) : avail[j].key = loaded[i].key}) = 1
        /\ loaded[i].val \in 1..Len(insts)
        /\ insts[loaded[i].val].cls = Get(avail, loaded[i].key)

\* components are Active after a refresh that destroyed earlier ones
C9_Witness ==
    /\ gen = 2
    /\ Len(loaded) = 2
    /\ \E i \in 1..Len(insts) : insts[i].destroys = 1

\* C10: an instance on which destroy has been called is never Active again,
\* and whatever becomes Active is a newly constructed instance on which onload
\* has been called once.
C10_LifecycleMonotonic ==
    /\ [](\A i \in 1..Len(loaded) :
             /\ insts[loaded[i].val].destroys = 0
             /\ insts[loaded[i].val].onloads = 1)
    /\ [][ \A i \in 1..Len(loaded') :
             (\A j \in 1..Len(loaded) : loaded[j] # loaded'[i]) =>
                 /\ loaded'[i].val > Len(insts)
                 /\ loaded'[i].val <= Len(insts') ]_regVars
    /\ [][ \A k \in 1..Len(insts) :
             /\ insts'[k].destroys >= insts[k].destroys
             /\ insts'[k].onloads = insts[k].onloads ]_regVars

\* "A" is loaded again after its first instance was destroyed: the listing has
\* held nothing but the unit declaring a good "A" since construction
C10_Witness ==
    /\ gen = 1
    /\ \A f \in Files : dir[f] \in {NoUnit, Unit(<<ClassDef("A", "ok"), ClassDef("C", "ctor_raises")>>)}
    /\ lastOp.op = "load" /\ lastOp.name = "A" /\ lastOp.branch = "loaded"
    /\ lastOp.ret = 2
    /\ loaded = <<[key |-> "A", val |-> 2]>>
    /\ insts[1].destroys = 1

\* C11: over any sequence of load, loadAll, unload, unloadAll and refresh,
\* onload is called exactly once on every instance, when it is constructed,
\* and never again; destroy is called at most once, and only on an instance
\* that is Active, that is, one whose onload returned (an instance is
\* registered only after its onload returned); an instance whose onload raised
\* is never registered and never receives destroy.
IsActiveInst(k) == \E i \in 1..Len(loaded) : loaded[i].val = k

C11_HooksOnce ==
    /\ [](\A k \in 1..Len(insts) :
             /\ insts[k].onloads = 1
             /\ insts[k].destroys \in {0, 1})
    /\ [][ /\ Len(insts') >= Len(insts)
           /\ \A k \in 1..Len(insts') :
                 IF k > Len(insts)
                 THEN insts'[k].onloads = 1 /\ insts'[k].destroys = 0
                 ELSE /\ insts'[k].onloads = insts[k].onloads
                      /\ insts'[k].destroys # insts[k].destroys =>
                            /\ IsActiveInst(k)
                            /\ insts[k].destroys = 0
                            /\ insts'[k].destroys = 1
                      /\ ~IsActiveInst(k) => insts'[k] = insts[k] ]_regVars

\* an instance whose onload raised was dropped, and a later refresh destroyed
\* the instances that were Active
C11_Witness ==
    /\ lastOp.op = "refresh"
    /\ \E k, j \in 1..Len(insts) :
          /\ k < j
          /\ insts[k] = [cls |-> NoClass, onloads |-> 1, destroys |-> 0]
          /\ insts[j].destroys = 1

(***************************************************************************)
(* The rate limiter.  Time is counted in the units of time.time(); the     *)
(* clock is read at multiples of Tick.                                     *)
(***************************************************************************)
Window == 60       \* the trailing interval of _apply_rate_limit
RPM_LIMIT == 2     \* the ceiling N (the class attribute; 15 in the source)
Tick == 20         \* granularity of the clock
MaxTicks == 8      \* the clock stops at MaxTicks * Tick
MaxAcq == 4        \* _apply_rate_limit calls in one behaviour

Times == {k * Tick : k \in 0..MaxTicks}

\* while request_timestamps and request_timestamps[0] <= current_time - 60:
\*     request_timestamps.popleft()
RECURSIVE purge(_, _)
purge(ts, ct) ==
    IF ts # <<>> /\ Head(ts) <= ct - Window THEN purge(Tail(ts), ct) ELSE ts

\* _apply_rate_limit, called when the clock reads t0.  over: by how much
\* time.sleep overshoots the requested wait; lag: the time that passes between
\* the last reading of current_time and the time.time() that is recorded.
\* Faulty variant: the ceiling is tested with > instead of >=.
apply_rate_limit_off_by_one(ts, t0, over, lag) ==
    LET ts1 == purge(ts, t0)
        full == Len(ts1) > RPM_LIMIT
        wait_time == IF full THEN ts1[1] + Window - t0 ELSE 0
        slept == full /\ wait_time > 0
        t1 == IF slept THEN t0 + wait_time + over ELSE t0
        ts2 == IF slept THEN purge(ts1, t1) ELSE ts1
        t2 == t1 + lag
    IN [stamps |-> Append(ts2, t2), now |-> t2, stamp |-> t2,
        tracked |-> Len(ts1), slept |-> slept, wait_time |-> wait_time]

\* Faulty variant: at the ceiling the oldest timestamp is dropped without
\* sleeping.
apply_rate_limit_no_sleep(ts, t0, over, lag) ==
    LET ts1 == purge(ts, t0)
        full == Len(ts1) >= RPM_LIMIT
        ts2 == IF full THEN Tail(ts1) ELSE ts1
        t2 == t0 + lag
    IN [stamps |-> Append(ts2, t2), now |-> t2, stamp |-> t2,
        tracked |-> Len(ts1), slept |-> FALSE, wait_time |-> 0]

\* Faulty variant: the wait runs to two windows after the oldest request.
apply_rate_limit_two_windows(ts, t0, over, lag) ==
    LET ts1 == purge(ts, t0)
        full == Len(ts1) >= RPM_LIMIT
        wait_time == IF full THEN ts1[1] + 2 * Window - t0 ELSE 0
        slept == full /\ wait_time > 0
        t1 == IF slept THEN t0 + wait_time + over ELSE t0
        ts2 == IF slept THEN purge(ts1, t1) ELSE ts1
        t2 == t1 + lag
    IN [stamps |-> Append(ts2, t2), now |-> t2, stamp |-> t2,
        tracked |-> Len(ts1), slept |-> slept, wait_time |-> wait_time]

apply_rate_limit(ts, t0, over, lag) ==
    LET ts1 == purge(ts, t0)
        full == Len(ts1) >= RPM_LIMIT
        wait_time == IF full THEN ts1[1] + Window - t0 ELSE 0
        slept == full /\ wait_time > 0
        t1 == IF slept THEN t0 + wait_time + over ELSE t0
        ts2 == IF slept THEN purge(ts1, t1) ELSE ts1
        t2 == t1 + lag
    IN [stamps |-> Append(ts2, t2), now |-> t2, stamp |-> t2,
        tracked |-> Len(ts1), slept |-> slept, wait_time |-> wait_time]

NoAcq == [called |-> 0, stamp |-> 0, tracked |-> 0, slept |-> FALSE, wait_time |-> 0]

RateInit ==
    /\ now = 0
    /\ request_timestamps = <<>>
    /\ admitted = <<>>
    /\ lastAcq = NoAcq

\* acquire(): one call of _apply_rate_limit, run to its end.
Acquire(over, lag) ==
    /\ Len(admitted) < MaxAcq
    /\ \E r \in {apply_rate_limit(request_timestamps, now, over, lag)} :
          /\ r.now \in Times
          /\ request_timestamps' = r.stamps
          /\ now' = r.now
          /\ admitted' = Append(admitted, r.stamp)
          /\ lastAcq' = [called |-> now, stamp |-> r.stamp, tracked |-> r.tracked,
                         slept |-> r.slept, wait_time |-> r.wait_time]
    /\ UNCHANGED <<regVars, useVars, aiVars, orchVars>>

\* Time passes between two calls.
Advance ==
    /\ now + Tick \in Times
    /\ now' = now + Tick
    /\ UNCHANGED <<request_timestamps, admitted, lastAcq>>
    /\ UNCHANGED <<regVars, useVars, aiVars, orchVars>>

RateNext ==
    \/ \E over \in {0, Tick}, lag \in {0, Tick} : Acquire(over, lag)
    \/ Advance

(***************************************************************************)
(* Using a component.  A text is a sequence of pieces, so that a formatted *)
(* message and the name inside it can be told apart.  A Python value is    *)
(* None or a string.                                                       *)
(***************************************************************************)
PyNone == [type |-> "NoneType", s |-> <<>>]
PyStr(t) == [type |-> "str", s |-> t]

\* str(value)
Str(v) == IF v.type = "NoneType" THEN <<"None">> ELSE v.s

\* What the use method of a plugin does in one call: it returns a value or
\* raises an exception with a message.
Returns(v) == [kind |-> "returns", val |-> v, msg |-> <<>>]
Raises(m) == [kind |-> "raises", val |-> PyNone, msg |-> m]

UseOutcomes == {Returns(PyStr(<<"hello">>)), Returns(PyNone), Raises(<<"boom">>)}

\* f"Error: Component '{tool_name}' not found."
NotFoundText(n) == <<"Error: Component '", n, "' not found.">>
\* f"Error executing tool '{tool_name}': {e}"
ExecErrorText(n, m) == <<"Error executing tool '", n, "': ">> \o m

\* use_component: the value the plugin returned; None, after logging, when
\* the plugin raised or no component of that name is loaded.
\* Faulty variant: no try/except around the call of use.
use_component_no_catch(L, n, o) ==
    IF Has(L, n)
    THEN IF o.kind = "raises"
         THEN [ret |-> PyNone, raised |-> TRUE, executed |-> TRUE, branch |-> "use_failed"]
         ELSE [ret |-> o.val, raised |-> FALSE, executed |-> TRUE, branch |-> "used"]
    ELSE [ret |-> PyNone, raised |-> FALSE, executed |-> FALSE, branch |-> "not_loaded"]

use_component(L, n, o) ==
    IF Has(L, n)
    THEN IF o.kind = "raises"
         THEN [ret |-> PyNone, raised |-> FALSE, executed |-> TRUE, branch |-> "use_failed"]
         ELSE [ret |-> o.val, raised |-> FALSE, executed |-> TRUE, branch |-> "used"]
    ELSE [ret |-> PyNone, raised |-> FALSE, executed |-> FALSE, branch |-> "not_loaded"]

\* get_component: the instance loaded under the name, None (0) when there is
\* none; the dict is read, not changed.
\* Faulty variant: the entry is taken out of the dict.
get_component_pop(L, n) ==
    [component |-> IF Has(L, n) THEN Get(L, n) ELSE 0,
     loaded |-> IF Has(L, n) THEN DictPop(L, n) ELSE L]

get_component(L, n) ==
    [component |-> IF Has(L, n) THEN Get(L, n) ELSE 0, loaded |-> L]

\* _call_tool: get_component, then use; a missing component and an exception
\* of use both come back as a message.
call_tool(L, n, o) ==
    LET g == get_component(L, n)
    IN IF g.component = 0
       THEN [ret |-> PyStr(NotFoundText(n)), raised |-> FALSE, executed |-> FALSE,
             branch |-> "not_found", loaded |-> g.loaded]
       ELSE IF o.kind = "raises"
       THEN [ret |-> PyStr(ExecErrorText(n, o.msg)), raised |-> FALSE,
             executed |-> TRUE, branch |-> "use_failed", loaded |-> g.loaded]
       ELSE [ret |-> o.val, raised |-> FALSE, executed |-> TRUE, branch |-> "used",
             loaded |-> g.loaded]

UseRecord(op, n, o, r) ==
    [op |-> op, name |-> n, outcome |-> o.kind, ret |-> r.ret, raised |-> r.raised,
     executed |-> r.executed, branch |-> r.branch]

NoUse ==
    [op |-> "-", name |-> "-", outcome |-> "-", ret |-> PyNone, raised |-> FALSE,
     executed |-> FALSE, branch |-> "-"]

UseInit == lastUse = NoUse

\* use_component(name, ...)
UseComponent(n, o) ==
    /\ lastUse' = UseRecord("use_component", n, o, use_component(loaded, n, o))
    /\ UNCHANGED <<regVars, rateVars, aiVars, orchVars>>

\* _call_tool(function_call)
CallTool(n, o) ==
    /\ \E r \in {call_tool(loaded, n, o)} :
          /\ lastUse' = UseRecord("call_tool", n, o, r)
          /\ loaded' = r.loaded
    /\ UNCHANGED <<regRest, rateVars, aiVars, orchVars>>

\* The first scan of the components directory.
FirstRefresh(e, d) == gen = 0 /\ Refresh(e, d)

UseNext ==
    \/ \E n \in Names, o \in UseOutcomes : UseComponent(n, o)
    \/ \E n \in Names, o \in UseOutcomes : CallTool(n, o)
    \/ \E e \in BOOLEAN, d \in Dirs : FirstRefresh(e, d)
    \/ LoadAll
    \/ \E n \in Names : Unload(n)

(***************************************************************************)
(* The conversation agent.  continue_autonomously is followed chunk by     *)
(* chunk: the backend decides what the next chunk of the stream that is    *)
(* being read holds, whether the stream ends, or whether reading it        *)
(* raises.  pc names the stream being read: "stream1" the response to the  *)
(* first exchange, "stream2" a follow-up response (the first stream stays  *)
(* open under it), "stream3" a response to a chained call (both others     *)
(* stay open under it); "idle" between two steps.                          *)
(***************************************************************************)
MaxWork == 4       \* steps started plus chunks delivered in one behaviour

DefaultPrompt == <<"Your Inner voice says you to proceed.">>
\* interrupt_message: None or the empty text (<<>>), or what the operator typed
Interrupts == {<<>>, <<"hello">>}

\* The message of the step: the interrupt, or the fixed phrase when the
\* interrupt is None or empty.
\* Faulty variant: the interrupt is taken as it is given.
effective_as_given(m) == m

effective(m) == IF m = <<>> THEN DefaultPrompt ELSE m

\* The text of the k-th chunk the backend delivers.
FragNames == <<"f1", "f2", "f3", "f4", "f5", "f6", "f7", "f8">>
FragText(k) == <<FragNames[k]>>

\* types.FunctionCall, types.Part, types.Content.  kind is not a field of the
\* program's Content: it records what the turn is (a "User" turn, a "Call", a
\* "ToolResult", the "Text" of the model), where the program has only role.
NoCall == [name |-> "-", args |-> <<>>]
FunctionCall(n) == [name |-> n, args |-> <<"hello">>]
TextPart(t) == [text |-> t, function_call |-> NoCall]
CallPart(fc) == [text |-> <<>>, function_call |-> fc]
Content(role, parts, kind) == [role |-> role, parts |-> parts, kind |-> kind]

\* The names the backend asks for: "A" is Active, "C" is discovered but its
\* constructor raises, so it is not Active.
RequestNames == {"A", "C"}

\* What a chunk holds: text or not, and its function calls.
Chunk(t, cs) == [text |-> t, function_calls |-> cs]
Chunks ==
    { Chunk(TRUE, <<>>), Chunk(FALSE, <<"A">>), Chunk(FALSE, <<"C">>),
      Chunk(FALSE, <<"C", "A">>), Chunk(TRUE, <<"C">>) }

\* What the use method of a requested tool does.
ToolOutcomes == {Returns(PyStr(<<"hello">>)), Raises(<<"boom">>)}

\* What the backend exchange can raise.
Failures == {"ClientError", "Exception"}

\* self._apply_rate_limit() followed by generate_content_stream(...), with no
\* time passing but what the limiter sleeps.
\* Faulty variant: the exchange is sent without asking the rate limiter.
send_unlimited(ts, t, ev) ==
    [stamps |-> ts, now |-> t, events |-> Append(ev, "exchange")]

send(ts, t, ev) ==
    LET rl == apply_rate_limit(ts, t, 0, 0)
    IN [stamps |-> rl.stamps, now |-> rl.now,
        events |-> ev \o <<"acquire", "exchange">>]

\* The number of exchanges in a log of events, which is the number of the
\* exchange sent last.
Exchanges(ev) == Cardinality({i \in 1..Len(ev) : ev[i] = "exchange"})

\* A chunk as delivered: the stream it came in (1 stream, 2 follow_up_stream,
\* 3 final_gen_stream), what it holds, and its number k among all chunks.
Delivered(level, c, k) ==
    [level |-> level, text |-> c.text, function_calls |-> c.function_calls, k |-> k]

\* A for loop over a response stream ends: that stream is finished.
\* Faulty variant: the stream is left open.
stream_end_leak(op) == op

stream_end(op) == SubSeq(op, 1, Len(op) - 1)

\* Lines 195-198: the buffered parts, if any, become one turn of the model.
\* Faulty variant: one turn per buffered part.
commit_each(h, parts) ==
    h \o [i \in 1..Len(parts) |-> Content("model", <<parts[i]>>, "Text")]

\* Faulty variant: a turn is appended for an empty buffer too.
commit_always(h, parts) == Append(h, Content("model", parts, "Text"))

commit(h, parts) ==
    IF parts # <<>> THEN Append(h, Content("model", parts, "Text")) ELSE h

\* The except clauses of the step: which failures they catch, and whether the
\* handler sleeps (time.sleep(5)) before the step returns.
\* Faulty variant: only errors.ClientError is caught.
handler_client_error_only(k) ==
    [caught |-> (k = "ClientError"), slept |-> (k = "ClientError")]

handler(k) ==
    [caught |-> TRUE, slept |-> (k = "ClientError")]

\* What the executor hands back for a call: the result of _call_tool, or the
\* message for a missing callback.
NoCallbackText(n) == <<"Error: Tool executor callback not set for ", n, ".">>

execute(cb, L, n, o) ==
    IF cb
    THEN call_tool(L, n, o)
    ELSE [ret |-> PyStr(NoCallbackText(n)), raised |-> FALSE, executed |-> FALSE,
          branch |-> "no_callback", loaded |-> L]

\* The two turns of a handled call: the call of the model, then the result
\* as a turn of role "user".
\* Faulty variant: the result turn is not appended.
call_turns_no_result(h, n, r) ==
    Append(h, Content("model", <<CallPart(FunctionCall(n))>>, "Call"))

\* Faulty variant: the result turn comes before the call turn.
call_turns_result_first(h, n, r) ==
    h \o << Content("user", <<TextPart(Str(r.ret))>>, "ToolResult"),
            Content("model", <<CallPart(FunctionCall(n))>>, "Call") >>

\* Faulty variant: the call turn is not appended.
call_turns_no_call(h, n, r) ==
    Append(h, Content("user", <<TextPart(Str(r.ret))>>, "ToolResult"))

call_turns(h, n, r) ==
    h \o << Content("model", <<CallPart(FunctionCall(n))>>, "Call"),
            Content("user", <<TextPart(Str(r.ret))>>, "ToolResult") >>

\* The except blocks: the last turn is popped when its role is "user" and its
\* text is the message of this step.
\* Faulty variant: the message of the user is popped together with the turn
\* before it.
rollback_pair(h, m) ==
    IF /\ h # <<>>
       /\ h[Len(h)].role = "user"
       /\ h[Len(h)].parts # <<>>
       /\ h[Len(h)].parts[1].text = m
    THEN SubSeq(h, 1, Len(h) - 2)
    ELSE h

\* Faulty variant: nothing is popped.
rollback_none(h, m) == h

rollback(h, m) ==
    IF /\ h # <<>>
       /\ h[Len(h)].role = "user"
       /\ h[Len(h)].parts # <<>>
       /\ h[Len(h)].parts[1].text = m
    THEN SubSeq(h, 1, Len(h) - 1)
    ELSE h

\* The record of a delivered function call: the stream it came in, whether it
\* was handled, how the executor ended ("used", "use_failed", "not_found",
\* "no_callback"; "dropped" when it was not handled), whether it names an
\* Active component.
CallRecord(n, level, handled, branch, active) ==
    [name |-> n, level |-> level, handled |-> handled, branch |-> branch,
     active |-> active]

RECURSIVE dropped_calls(_, _, _)
dropped_calls(cs, level, L) ==
    IF cs = <<>>
    THEN <<>>
    ELSE <<CallRecord(Head(cs), level, FALSE, "dropped", Has(L, Head(cs)))>>
             \o dropped_calls(Tail(cs), level, L)

Running == [status |-> "running", failure |-> "-", slept |-> FALSE, removed |-> <<>>]

\* The registry the agent's tools are resolved in: after the first refresh and
\* loadAll of a directory whose one unit declares "A" and "C".
ToolDir ==
    [f \in Files |->
        IF f = 1
        THEN Unit(<<ClassDef("A", "ok"), ClassDef("C", "ctor_raises")>>)
        ELSE NoUnit]

OrchRegInit ==
    \E r \in {refresh_components(<<>>, <<>>, <<>>, {}, TRUE, ToolDir, 1)} :
      \E la \in {load_all_components(r.avail, r.loaded, r.insts)} :
         /\ dirExists = TRUE
         /\ dir = ToolDir
         /\ sysModules = r.mods
         /\ avail = r.avail
         /\ loaded = la.loaded
         /\ insts = la.insts
         /\ gen = 1
         /\ lastOp = Outcome("loadAll", "-", 0, la.raised, "-", TRUE)

\* GeminiChatAgent.__init__ with no initial system prompt.
OrchInit ==
    /\ chat_history = <<>>
    /\ callback = FALSE
    /\ pc = "idle"
    /\ effective_user_message = <<>>
    /\ model_response_parts = <<>>
    /\ pending = <<>>
    /\ pre = <<>>
    /\ events = <<>>
    /\ calls = <<>>
    /\ frags = 0
    /\ steps = 0
    /\ lastStep = [status |-> "none", failure |-> "-", slept |-> FALSE, removed |-> <<>>]
    /\ deliv = <<>>
    /\ open = <<>>

\* set_tool_executor_callback(self._call_tool)
SetCallback ==
    /\ pc = "idle"
    /\ steps = 0
    /\ ~callback
    /\ callback' = TRUE
    /\ UNCHANGED <<chat_history, pc, effective_user_message, model_response_parts,
                   pending, pre, events, calls, frags, steps, lastStep, deliv, open>>
    /\ UNCHANGED <<regVars, rateVars, useVars, aiVars>>

\* continue_autonomously(tools, m) up to the first exchange: the turn of the
\* user is appended, the limiter is asked, the request is sent.
Begin(m) ==
    /\ pc = "idle"
    /\ steps + frags < MaxWork
    /\ interrupt_message' = m
    /\ \E eum \in {effective(m)} :
       \E x \in {send(request_timestamps, now, <<>>)} :
          /\ effective_user_message' = eum
          /\ chat_history' = Append(chat_history, Content("user", <<TextPart(eum)>>, "User"))
          /\ request_timestamps' = x.stamps
          /\ now' = x.now
          /\ events' = x.events
          /\ open' = <<Exchanges(x.events)>>
    /\ deliv' = <<>>
    /\ pre' = chat_history
    /\ model_response_parts' = <<>>
    /\ pending' = <<>>
    /\ calls' = <<>>
    /\ steps' = steps + 1
    /\ lastStep' = Running
    /\ pc' = "stream1"
    /\ UNCHANGED <<callback, frags>>
    /\ UNCHANGED <<regVars, useVars, buildVars, chatVars, admitted, lastAcq>>

\* A chunk of the first response.  With function calls in it, the first call
\* is handled (call turn, executor, result turn, follow-up exchange) and the
\* break leaves the other calls of the chunk; the text of such a chunk is not
\* looked at.  Otherwise its text is buffered.
Chunk1(c, o) ==
    /\ pc = "stream1"
    /\ steps + frags < MaxWork
    /\ frags' = frags + 1
    /\ deliv' = Append(deliv, Delivered(1, c, frags + 1))
    /\ IF c.function_calls # <<>>
       THEN \E n \in {Head(c.function_calls)} :
            \E r \in {execute(callback, loaded, n, o)} :
            \E x \in {send(request_timestamps, now,
                           IF r.executed THEN Append(events, "tool") ELSE events)} :
               /\ chat_history' = call_turns(chat_history, n, r)
               /\ request_timestamps' = x.stamps
               /\ now' = x.now
               /\ events' = x.events
               /\ calls' = calls
                            \o <<CallRecord(n, 1, TRUE, r.branch, Has(loaded, n))>>
                            \o dropped_calls(Tail(c.function_calls), 1, loaded)
               /\ open' = Append(open, Exchanges(x.events))
               /\ pc' = "stream2"
               /\ loaded' = r.loaded
               /\ UNCHANGED model_response_parts
       ELSE /\ model_response_parts' =
                  Append(model_response_parts, TextPart(FragText(frags + 1)))
            /\ UNCHANGED <<chat_history, request_timestamps, now, events, calls, pc,
                           open, loaded>>
    /\ UNCHANGED <<callback, effective_user_message, pending, pre, steps, lastStep>>
    /\ UNCHANGED <<regRest, useVars, aiVars, admitted, lastAcq>>

\* The handling of one chained call (lines 159-179): the tool is run, the two
\* turns are appended, the limiter is asked and the third exchange is sent.
\* Without a callback the call is passed over.
Chained(cs, o, op) ==
    IF cs # <<>> /\ callback
    THEN \E n \in {Head(cs)} :
         \E r \in {execute(callback, loaded, n, o)} :
         \E x \in {send(request_timestamps, now,
                        IF r.executed THEN Append(events, "tool") ELSE events)} :
            /\ chat_history' = call_turns(chat_history, n, r)
            /\ request_timestamps' = x.stamps
            /\ now' = x.now
            /\ events' = x.events
            /\ calls' = calls \o <<CallRecord(n, 2, TRUE, r.branch, Has(loaded, n))>>
            /\ pending' = Tail(cs)
            /\ open' = Append(op, Exchanges(x.events))
            /\ pc' = "stream3"
            /\ loaded' = r.loaded
    ELSE /\ calls' = calls \o dropped_calls(cs, 2, loaded)
         /\ pending' = <<>>
         /\ open' = op
         /\ pc' = "stream2"
         /\ UNCHANGED <<chat_history, request_timestamps, now, events, loaded>>

\* A chunk of a follow-up response: its text is buffered, and then its
\* function calls are not looked at; without text, its calls are handled one
\* after the other.
Chunk2(c, o) ==
    /\ pc = "stream2"
    /\ steps + frags < MaxWork
    /\ frags' = frags + 1
    /\ deliv' = Append(deliv, Delivered(2, c, frags + 1))
    /\ IF c.text
       THEN /\ model_response_parts' =
                  Append(model_response_parts, TextPart(FragText(frags + 1)))
            /\ calls' = calls \o dropped_calls(c.function_calls, 2, loaded)
            /\ UNCHANGED <<chat_history, request_timestamps, now, events, pending, pc,
                           open, loaded>>
       ELSE /\ Chained(c.function_calls, o, open)
            /\ UNCHANGED model_response_parts
    /\ UNCHANGED <<callback, effective_user_message, pre, steps, lastStep>>
    /\ UNCHANGED <<regRest, useVars, aiVars, admitted, lastAcq>>

\* A chunk of the response to a chained call: only its text is looked at.
Chunk3(c) ==
    /\ pc = "stream3"
    /\ steps + frags < MaxWork
    /\ frags' = frags + 1
    /\ deliv' = Append(deliv, Delivered(3, c, frags + 1))
    /\ model_response_parts' =
          IF c.text THEN Append(model_response_parts, TextPart(FragText(frags + 1)))
                    ELSE model_response_parts
    /\ calls' = calls \o dropped_calls(c.function_calls, 3, loaded)
    /\ UNCHANGED <<chat_history, events, pending, pc, open,
                   callback, effective_user_message, pre, steps, lastStep>>
    /\ UNCHANGED <<regVars, rateVars, useVars, aiVars>>

\* The response to a chained call ends: the next call of the follow-up chunk
\* is handled, or the follow-up response is read on.
End3(o) ==
    /\ pc = "stream3"
    /\ Chained(pending, o, stream_end(open))
    /\ UNCHANGED <<callback, effective_user_message, model_response_parts, pre,
                   frags, steps, lastStep, deliv>>
    /\ UNCHANGED <<regRest, useVars, aiVars, admitted, lastAcq>>

\* The follow-up response ends: the first response is read on.
End2 ==
    /\ pc = "stream2"
    /\ pc' = "stream1"
    /\ open' = stream_end(open)
    /\ UNCHANGED <<chat_history, events, calls, pending,
                   callback, effective_user_message, model_response_parts, pre,
                   frags, steps, lastStep, deliv>>
    /\ UNCHANGED <<regVars, rateVars, useVars, aiVars>>

\* The first response ends: the buffered text, if any, is appended as one
\* turn of the model, and the step returns (its local variables are gone).
End1 ==
    /\ pc = "stream1"
    /\ chat_history' = commit(chat_history, model_response_parts)
    /\ lastStep' = [lastStep EXCEPT !.status = "returned"]
    /\ pc' = "idle"
    /\ model_response_parts' = <<>>
    /\ open' = stream_end(open)
    /\ UNCHANGED <<events, calls, pending, callback,
                   effective_user_message, pre, frags, steps, deliv>>
    /\ UNCHANGED <<regVars, rateVars, useVars, aiVars>>

\* Sending an exchange or reading a stream raises: the exception leaves the
\* loops (their streams are dropped), the except block that catches it rolls
\* back; after a ClientError it sleeps 5; the step returns.
Fail(k) ==
    /\ pc \in {"stream1", "stream2", "stream3"}
    /\ \E hd \in {handler(k)} :
       \E h \in {IF hd.caught
                  THEN rollback(chat_history, effective_user_message)
                  ELSE chat_history} :
          /\ chat_history' = h
          /\ lastStep' = [status |-> IF hd.caught THEN "returned" ELSE "raised",
                          failure |-> k,
                          slept |-> hd.slept,
                          removed |-> IF h = chat_history
                                      THEN <<>>
                                      ELSE <<chat_history[Len(chat_history)]>>]
    /\ pc' = "idle"
    /\ pending' = <<>>
    /\ model_response_parts' = <<>>
    /\ open' = <<>>
    /\ UNCHANGED <<events, calls, callback,
                   effective_user_message, pre, frags, steps, deliv>>
    /\ UNCHANGED <<regVars, rateVars, useVars, aiVars>>

OrchNext ==
    \/ SetCallback
    \/ \E m \in Interrupts : Begin(m)
    \/ \E c \in Chunks, o \in ToolOutcomes : Chunk1(c, o)
    \/ \E c \in Chunks, o \in ToolOutcomes : Chunk2(c, o)
    \/ \E c \in Chunks : Chunk3(c)
    \/ \E o \in ToolOutcomes : End3(o)
    \/ End2
    \/ End1
    \/ \E k \in Failures : Fail(k)

(***************************************************************************)
(* Specifications: each runs one part of the program and leaves the state  *)
(* of the other parts as construction left it.                             *)
(***************************************************************************)
(***************************************************************************)
(* The tool declarations (src/src/ai_manager.py).  A use method is what    *)
(* inspect reports of it: whether it is a bound method, its documentation  *)
(* and the parameters of its def, the receiver first.  An annotation is    *)
(* the object the signature holds: "empty" is inspect.Parameter.empty,     *)
(* "list" stands for any type other than str, int, float and bool.         *)
(***************************************************************************)
MaxParams == 2

ParamNames == <<"text", "count", "flag">>

Annotations == {"empty", "str", "int", "float", "bool", "list"}

Parameter(n, a, d) == [name |-> n, annotation |-> a, has_default |-> d]

Receiver == Parameter("self", "empty", FALSE)

\* The parameter lists a def can have after the receiver: at most MaxParams
\* parameters, no name twice.
ParamLists ==
    { ps \in UNION { [1..k -> [name : {ParamNames[i] : i \in 1..Len(ParamNames)},
                               annotation : Annotations,
                               has_default : BOOLEAN]] : k \in 0..MaxParams } :
        \A i, j \in 1..Len(ps) : i # j => ps[i].name # ps[j].name }

Docs == {<<>>, <<"Echoes the text.">>}

Method(m, doc, ps) == [ismethod |-> m, doc |-> doc, params |-> <<Receiver>> \o ps]

Methods == { Method(m, doc, ps) : m \in BOOLEAN, doc \in Docs, ps \in ParamLists }

NoMethod == Method(FALSE, <<>>, <<>>)

\* inspect.signature of a bound method: the parameters without the receiver.
signature(method) == Tail(method.params)

get_gemini_type_bool_is_int(python_type) ==
    IF python_type \in {"empty", "str"} THEN "string"
    ELSE IF python_type \in {"int", "float", "bool"} THEN "number"
    ELSE "string"

get_gemini_type(python_type) ==
    IF python_type \in {"empty", "str"} THEN "string"
    ELSE IF python_type \in {"int", "float"} THEN "number"
    ELSE IF python_type = "bool" THEN "boolean"
    ELSE "string"

Property(n, t) == [name |-> n, type |-> t]

NoDeclaration ==
    [none |-> TRUE, name |-> "-", description |-> <<>>, properties |-> <<>>,
     required |-> <<>>]

RECURSIVE parameters_schema(_, _, _)
parameters_schema(ps, properties, required) ==
    IF ps = <<>> THEN [properties |-> properties, required |-> required]
    ELSE IF Head(ps).name = "self"
    THEN parameters_schema(Tail(ps), properties, required)
    ELSE parameters_schema(
            Tail(ps),
            Append(properties,
                   Property(Head(ps).name, get_gemini_type(Head(ps).annotation))),
            IF ~Head(ps).has_default THEN Append(required, Head(ps).name)
            ELSE required)

component_to_tool_declaration(component_name, method) ==
    IF ~method.ismethod THEN NoDeclaration
    ELSE LET s == parameters_schema(signature(method), <<>>, <<>>)
         IN [none |-> FALSE,
             name |-> component_name,
             description |-> IF method.doc # <<>> THEN method.doc
                             ELSE <<"Uses the ", component_name, " component.">>,
             properties |-> s.properties,
             required |-> s.required]

(***************************************************************************)
(* The chat loop (src/src/ai_manager.py, start_chat_interface).  One pass   *)
(* of the loop reads a line, and unless the line ends the loop sends the   *)
(* conversation to the backend and handles what comes back.                *)
(***************************************************************************)
MaxInputs == 3     \* lines read in one behaviour

\* What input() returns.
Inputs == {"exit", "Exit", "QUIT", "exit now", "hello", ""}

\* str.lower
lower_as_is(u) == u

lower(u) ==
    CASE u = "Exit" -> "exit"
      [] u = "QUIT" -> "quit"
      [] OTHER -> u

\* What the backend does in a pass: a chunk of text; a chunk with a call of a
\* tool and text in the follow-up; a chunk with a call and a follow-up that
\* asks for another call; or the first exchange raises.
ChatResponses == {"text", "call", "call_call", "ClientError", "Exception"}

InputRecord(u, ended, ev, n) ==
    [input |-> u, ended |-> ended, events |-> ev, read |-> n]

NoInput == InputRecord("-", FALSE, <<>>, 0)

\* One pass of the loop body after the line is read.  o is what the use of the
\* tool does if it is reached.
chat_pass(h, ts, t, L, u, r, o) ==
    IF lower(u) \in {"exit", "quit"}
    THEN [ended |-> TRUE, history |-> h, stamps |-> ts, now |-> t, events |-> <<>>,
          loaded |-> L]
    ELSE LET h1 == Append(h, Content("user", <<TextPart(<<u>>)>>, "User"))
             s1 == send(ts, t, <<"user_turn">>)
         IN IF r \in {"ClientError", "Exception"}
            THEN [ended |-> FALSE,
                  history |-> IF h1[Len(h1)].role = "user"
                              THEN SubSeq(h1, 1, Len(h1) - 1) ELSE h1,
                  stamps |-> s1.stamps,
                  now |-> IF r = "ClientError" THEN s1.now + 5 ELSE s1.now,
                  events |-> Append(s1.events, "rollback"), loaded |-> L]
            ELSE IF r = "text"
            THEN [ended |-> FALSE,
                  history |-> Append(h1, Content("model", <<TextPart(FragText(1))>>,
                                                 "Text")),
                  stamps |-> s1.stamps, now |-> s1.now, events |-> s1.events,
                  loaded |-> L]
            ELSE LET c == call_tool(L, "A", o)
                     h2 == h1 \o <<Content("model", <<CallPart(FunctionCall("A"))>>,
                                           "Call"),
                                   Content("function", <<TextPart(Str(c.ret))>>,
                                           "ToolResult")>>
                     s2 == send(s1.stamps, s1.now, Append(s1.events, "tool"))
                 IN [ended |-> FALSE,
                     history |-> IF r = "call"
                                 THEN Append(h2, Content("model",
                                                    <<TextPart(FragText(1))>>, "Text"))
                                 ELSE h2,
                     stamps |-> s2.stamps, now |-> s2.now, events |-> s2.events,
                     loaded |-> c.loaded]

\* What getattr(instance, "use", None) gives for the instance of each class:
\* a bound method, or a function that is none (a staticmethod).
ToolMethods ==
    { Method(TRUE, <<>>, <<Parameter("text", "str", FALSE)>>),
      Method(FALSE, <<>>, <<>>) }

UseMethods == { um \in [Names -> ToolMethods] : um["C"].ismethod }

\* _build_gemini_tools: one declaration per entry of _loaded_components, in
\* the order of the dict, where there is one.
\* Faulty variant: the entry without a declaration ends the loop.
RECURSIVE build_gemini_tools_stop(_, _, _)
build_gemini_tools_stop(L, um, tools) ==
    IF L = <<>> THEN tools
    ELSE LET tool == component_to_tool_declaration(Head(L).key, um[Head(L).key])
         IN IF tool.none THEN tools
            ELSE build_gemini_tools_stop(Tail(L), um, Append(tools, tool))

RECURSIVE build_gemini_tools(_, _, _)
build_gemini_tools(L, um, tools) ==
    IF L = <<>> THEN tools
    ELSE LET tool == component_to_tool_declaration(Head(L).key, um[Head(L).key])
         IN build_gemini_tools(Tail(L), um,
                               IF tool.none THEN tools ELSE Append(tools, tool))

BuildRecord(b, L, um, op, g) ==
    [built |-> b, active |-> KeySeq(L), methods |-> um, after |-> op, scans |-> g]

NoBuild == BuildRecord(FALSE, <<>>, [n \in Names |-> NoMethod], "-", 0)

AiInit ==
    /\ use_method = NoMethod
    /\ declaration = NoDeclaration
    /\ available_tools = <<>>
    /\ lastBuild = NoBuild
    /\ chat_pc = "constructed"
    /\ cli_history = <<>>
    /\ lastInput = NoInput
    /\ interrupt_message = <<>>

\* The builder is given the use method of some component.
SchemaInit ==
    /\ use_method \in Methods
    /\ declaration = NoDeclaration
    /\ available_tools = <<>>
    /\ lastBuild = NoBuild
    /\ chat_pc = "constructed"
    /\ cli_history = <<>>
    /\ lastInput = NoInput
    /\ interrupt_message = <<>>

\* _component_to_tool_declaration(component_name, instance)
Build(n) ==
    /\ declaration = NoDeclaration
    /\ declaration' = component_to_tool_declaration(n, use_method)
    /\ UNCHANGED <<use_method, available_tools, lastBuild>>
    /\ UNCHANGED <<chatVars, interrupt_message>>
    /\ UNCHANGED <<regVars, rateVars, useVars, orchVars>>

SchemaNext == \E n \in Names : Build(n)

\* _build_gemini_tools(), on the registry as it stands; um is what the use
\* attribute of each class is.
BuildTools(um) ==
    /\ available_tools' = build_gemini_tools(loaded, um, <<>>)
    /\ lastBuild' = BuildRecord(TRUE, loaded, um, lastOp.op, gen)
    /\ UNCHANGED <<use_method, declaration, chatVars, interrupt_message>>
    /\ UNCHANGED <<regVars, rateVars, useVars, orchVars>>

\* start_chat_interface() is called: the loop is entered.
StartChat ==
    /\ chat_pc = "constructed"
    /\ chat_pc' = "reading"
    /\ UNCHANGED <<buildVars, cli_history, lastInput, interrupt_message>>
    /\ UNCHANGED <<regVars, rateVars, useVars, orchVars>>

\* One pass of the while loop: input() returns u and the pass runs to its end.
ChatInput(u, r, o) ==
    /\ chat_pc = "reading"
    /\ lastInput.read < MaxInputs
    /\ \E p \in {chat_pass(cli_history, request_timestamps, now, loaded, u, r, o)} :
          /\ chat_pc' = IF p.ended THEN "ended" ELSE "reading"
          /\ cli_history' = p.history
          /\ request_timestamps' = p.stamps
          /\ now' = p.now
          /\ lastInput' = InputRecord(u, p.ended, p.events, lastInput.read + 1)
          /\ loaded' = p.loaded
    /\ UNCHANGED <<buildVars, interrupt_message>>
    /\ UNCHANGED <<regRest, admitted, lastAcq, useVars, orchVars>>

ChatNext ==
    \/ StartChat
    \/ \E u \in Inputs, r \in ChatResponses, o \in ToolOutcomes : ChatInput(u, r, o)

\* refresh() of a directory that has not changed since the last scan.
Rescan == gen > 0 /\ Refresh(dirExists, dir)

ToolsNext ==
    \/ \E e \in BOOLEAN, d \in Dirs : FirstRefresh(e, d)
    \/ Rescan
    \/ LoadAll
    \/ \E n \in Names : Load(n)
    \/ \E um \in UseMethods : BuildTools(um)


vars == <<regVars, rateVars, useVars, aiVars, orchVars>>

AllInit == RegInit /\ RateInit /\ UseInit /\ AiInit /\ OrchInit

RegistrySpec == AllInit /\ [][RegNext]_vars

RateSpec == AllInit /\ [][RateNext]_vars

UseSpec == AllInit /\ [][UseNext]_vars

\* The agent as GeminiChatAgent.__init__ leaves it, the limiter and the
\* history empty, beside a registry its caller has refreshed and loaded (the
\* constructors scan nothing: ComponentManager.__init__ only makes two empty
\* dicts).
OrchAllInit == OrchRegInit /\ RateInit /\ UseInit /\ AiInit /\ OrchInit

OrchSpec == OrchAllInit /\ [][OrchNext]_vars

\* The agent when every response stream is finite: a stream that is being
\* read comes to its end (or fails) after finitely many chunks.
OrchLiveSpec ==
    /\ OrchAllInit
    /\ [][OrchNext]_vars
    /\ WF_vars(End1)
    /\ WF_vars(End2)
    /\ WF_vars(\E o \in ToolOutcomes : End3(o))

\* The agent and the registry in one program: between two steps, while the
\* behaviour goes on, the caller refreshes the registry and loads again.
BetweenSteps == pc = "idle" /\ steps + frags < MaxWork

IdleRescan == BetweenSteps /\ Rescan

\* loadAll() after a refresh.
IdleReload == BetweenSteps /\ lastOp.op = "refresh" /\ LoadAll

OwnerNext ==
    \/ OrchNext
    \/ IdleRescan
    \/ IdleReload

OwnerSpec == OrchAllInit /\ [][OwnerNext]_vars

ChatAllInit == AllInit

ChatSpec == ChatAllInit /\ [][ChatNext]_vars

SchemaAllInit == RegInit /\ RateInit /\ UseInit /\ SchemaInit /\ OrchInit

SchemaSpec == SchemaAllInit /\ [][SchemaNext]_vars

ToolsSpec == AllInit /\ [][ToolsNext]_vars

\* C13: for the ceiling N = RPM_LIMIT and whatever the times of the calls, no
\* window of length Window, (t - Window, t], holds more than N recorded
\* timestamps.
InWindow(t) == {i \in 1..Len(admitted) : t - Window < admitted[i] /\ admitted[i] <= t}

C13_WindowCeiling ==
    \A t \in Times : Cardinality(InWindow(t)) <= RPM_LIMIT

\* more calls than the ceiling were admitted, one of them after sleeping, and
\* a window is full
C13_Witness ==
    /\ Len(admitted) = MaxAcq
    /\ lastAcq.slept
    /\ \E t \in Times : Cardinality(InWindow(t)) = RPM_LIMIT

\* C14: a call made while N timestamps are tracked inside the trailing window
\* sleeps, and the timestamp it records is at least Window later than the
\* oldest tracked one; so the first and the (N+1)st admission of any run are
\* at least Window apart (N = 2: the 1st and the 3rd).
TrackedInWindow ==
    {i \in 1..Len(request_timestamps) : request_timestamps[i] > now - Window}

C14_BlocksAtCeiling ==
    /\ [][ (Len(admitted') = Len(admitted) + 1
             /\ Cardinality(TrackedInWindow) >= RPM_LIMIT) =>
               /\ lastAcq'.slept
               /\ \E i \in TrackedInWindow :
                     /\ \A j \in TrackedInWindow :
                           request_timestamps[i] <= request_timestamps[j]
                     /\ admitted'[Len(admitted')] >= request_timestamps[i] + Window ]_rateVars
    /\ [](Len(admitted) > RPM_LIMIT =>
             admitted[RPM_LIMIT + 1] - admitted[1] >= Window)

\* N + 1 calls without a pause between them: the last one slept and was
\* recorded exactly Window after the first
C14_Witness ==
    /\ Len(admitted) = RPM_LIMIT + 1
    /\ lastAcq.slept
    /\ lastAcq.called = admitted[1]
    /\ admitted[RPM_LIMIT + 1] - admitted[1] = Window

\* A result that describes an error of tool n: one of the messages _call_tool
\* formats.
IsErrorText(v, n) ==
    /\ v.type = "str"
    /\ Len(v.s) >= 2
    /\ v.s[1] \in {"Error: Component '", "Error executing tool '"}
    /\ v.s[2] = n

\* C12, as the claim states it: when the plugin's use raises, the use
\* operation propagates nothing and hands its caller a result that describes
\* the error; for a name that is not Active it returns without raising.
C12_ErrorResult ==
    /\ ~lastUse.raised
    /\ lastUse.branch = "use_failed" => IsErrorText(lastUse.ret, lastUse.name)

\* C12, amended: neither operation propagates what use raises. _call_tool,
\* the tool executor, returns a message that names the tool, for a raising
\* use and for a name that is not Active, and runs no plugin for the latter;
\* use_component returns None in both cases, the failure being logged only.
C12_NoPropagation ==
    [][ lastUse' # lastUse =>
          LET u == lastUse'
              failed == u.outcome = "raises" /\ u.name \in ActiveNames
              inactive == u.name \notin ActiveNames
          IN /\ ~u.raised
             /\ u.executed = ~inactive
             /\ (u.op = "call_tool" /\ (failed \/ inactive)) => IsErrorText(u.ret, u.name)
             /\ (u.op = "use_component" /\ (failed \/ inactive)) => u.ret = PyNone
             /\ UNCHANGED regVars ]_vars

\* the use of an Active component raised inside use_component while another
\* component was Active
C12_Witness ==
    /\ lastUse.op = "use_component"
    /\ lastUse.branch = "use_failed"
    /\ lastUse.ret = PyNone
    /\ Cardinality(ActiveNames) = 2

(***************************************************************************)
(* The conversation agent: vocabulary of the claims.                       *)
(***************************************************************************)
IsPrefix(a, b) == Len(a) <= Len(b) /\ SubSeq(b, 1, Len(a)) = a
Count(sq, x) == Cardinality({i \in 1..Len(sq) : sq[i] = x})
Failed == pc = "idle" /\ lastStep.status = "returned" /\ lastStep.failure # "-"
HandledCalls == {i \in 1..Len(calls) : calls[i].handled}
CallTurn(n) == Content("model", <<CallPart(FunctionCall(n))>>, "Call")
ResultTurn(t) == Content("user", <<TextPart(t)>>, "ToolResult")

\* C15: every exchange of a step has exactly one acquire of the rate limiter
\* right before it, nothing of the step between the two, and the step makes
\* as many acquires as exchanges; each acquire leaves its timestamp.
C15_AcquireBeforeExchange ==
    /\ \A i \in 1..Len(events) :
          /\ events[i] = "exchange" => (i > 1 /\ events[i - 1] = "acquire")
          /\ events[i] = "acquire" => (i < Len(events) /\ events[i + 1] = "exchange")
    /\ Count(events, "acquire") = Count(events, "exchange")
    /\ pc # "idle" => Count(events, "exchange") = 1 + Cardinality(HandledCalls)
    /\ events # <<>> => (request_timestamps # <<>>
                         /\ request_timestamps[Len(request_timestamps)] = now)

\* the first exchange, a follow-up and a chained follow-up have been sent
C15_Witness ==
    /\ pc = "stream3"
    /\ Count(events, "exchange") = 3
    /\ Count(events, "acquire") = 3
    /\ lastAcq = NoAcq

\* C16, as the claim states it: after a step in which the backend failed, at
\* whatever point, the conversation is what it was before the step.
C16_ExactRollback ==
    Failed => chat_history = pre

\* C16, amended: the conversation is what it was before the step when the
\* backend failed before any function call of the step was handled (on the
\* first exchange or while its response was read); after a handled call the
\* earlier state is not restored: the turns before the step are kept and the
\* turn of the user and the call turn stay after them.
C16_RollbackBeforeCalls ==
    Failed =>
        IF HandledCalls = {}
        THEN chat_history = pre
        ELSE /\ IsPrefix(pre, chat_history)
             /\ Len(chat_history) >= Len(pre) + 2
             /\ chat_history[Len(pre) + 1].kind = "User"
             /\ chat_history[Len(pre) + 2].kind = "Call"

\* the second step of a conversation failed after a text chunk had been read
C16_Witness ==
    /\ Failed
    /\ steps = 2
    /\ calls = <<>>
    /\ frags >= 1
    /\ pre # <<>>
    /\ pre[Len(pre)].kind = "Text"
    /\ chat_history = pre
    /\ lastStep.removed # <<>>

\* C17: on a backend failure the rollback removes at most one turn, and only
\* the turn of the user that this step appended; it never removes the result
\* of a tool or a turn of the model.
C17_RollbackOnlyUserTurn ==
    /\ Len(lastStep.removed) <= 1
    /\ \A i \in 1..Len(lastStep.removed) :
          /\ lastStep.removed[i].kind = "User"
          /\ chat_history = pre

\* C18: what was in the conversation before a step stays, unchanged and in
\* place, during and after the step; a turn is only ever removed at the end,
\* one turn at most, and one that the step itself appended; nothing else is
\* changed in place.
C18_PrefixPreserved ==
    /\ [](IsPrefix(pre, chat_history))
    /\ [][ (pc = "idle" /\ pc' # "idle") => pre' = chat_history ]_vars
    /\ [][ pc # "idle" => pre' = pre ]_vars
    /\ [][ \/ IsPrefix(chat_history, chat_history')
           \/ /\ Len(chat_history') = Len(chat_history) - 1
              /\ IsPrefix(chat_history', chat_history)
              /\ Len(chat_history') >= Len(pre)
              /\ pc # "idle" /\ pc' = "idle" ]_vars

\* the second step failed after a call had been handled, and the rollback
\* removed a turn of that step
C18_Witness ==
    /\ Failed
    /\ steps = 2
    /\ pre # <<>>
    /\ HandledCalls # {}
    /\ lastStep.removed # <<>>
    /\ Len(chat_history) > Len(pre)

\* C19: when the use of a tool raises, the step appends the call turn and then
\* a result turn whose text is the message describing the error, removes
\* nothing, runs the rate limiter and sends the follow-up exchange, just as
\* after a tool that returned.
C19_ToolErrorTwoTurns ==
    [][ Len(calls') > Len(calls) =>
          LET c == calls'[Len(calls) + 1]
          IN (c.handled /\ c.branch \in {"use_failed", "used"}) =>
                /\ c.active
                /\ Len(chat_history') = Len(chat_history) + 2
                /\ IsPrefix(chat_history, chat_history')
                /\ chat_history'[Len(chat_history) + 1] = CallTurn(c.name)
                /\ chat_history'[Len(chat_history) + 2].kind = "ToolResult"
                /\ c.branch = "use_failed" =>
                      chat_history'[Len(chat_history) + 2] =
                          ResultTurn(ExecErrorText(c.name, <<"boom">>))
                /\ events' = events \o <<"tool", "acquire", "exchange">>
                /\ pc' = (IF c.level = 1 THEN "stream2" ELSE "stream3") ]_vars

\* a tool raised in a chained call
C19_Witness ==
    /\ pc = "stream3"
    /\ Len(calls) = 2
    /\ calls[2].branch = "use_failed"
    /\ chat_history[Len(chat_history)] = ResultTurn(ExecErrorText("A", <<"boom">>))
    /\ chat_history[Len(chat_history) - 1] = CallTurn("A")

\* C20: for every function call the backend delivers that names a component
\* that is not Active, no plugin is run, and the call turn and a result turn
\* with a message naming the component are appended.
C20_InactiveToolReported ==
    \A i \in 1..Len(calls) :
        ~calls[i].active =>
            /\ calls[i].handled
            /\ calls[i].branch \in {"not_found", "no_callback"}
            /\ \E k \in (Len(pre) + 1)..(Len(chat_history) - 1) :
                  /\ chat_history[k] = CallTurn(calls[i].name)
                  /\ chat_history[k + 1].kind = "ToolResult"

C30_IncompleteNotDiscovered ==
    \A i \in 1..Len(avail) : ~Incomplete(avail[i].val)

\* C30, amended: discovery records a descriptor for every BaseComponent
\* subclass, complete or not; a class that lacks one of the three operations
\* is refused when it is loaded: its construction raises, no hook is called,
\* and it is never Active.
C30_IncompleteNeverActive ==
    /\ (gen > 0 /\ dirExists) =>
          \A n \in DeclaredNames(dir) :
              Incomplete(DefIn(dir[FirstDeclaring(dir, n)], n)) =>
                  (Has(avail, n) /\ Incomplete(Get(avail, n)))
    /\ \A i \in 1..Len(loaded) : ~Incomplete(insts[loaded[i].val].cls)
    /\ \A k \in 1..Len(insts) :
          Incomplete(insts[k].cls) => (insts[k].onloads = 0 /\ insts[k].destroys = 0)

\* an incomplete class has a descriptor, and its load has just failed
C30_Witness ==
    /\ Has(avail, "C")
    /\ Incomplete(Get(avail, "C"))
    /\ lastOp.op = "load"
    /\ lastOp.name = "C"
    /\ ~Has(loaded, "C")

(***************************************************************************)
(* The conversation agent: what a step makes of the chunks it is given.    *)
(***************************************************************************)
UserTurn(m) == Content("user", <<TextPart(m)>>, "User")
\* The turn that holds the texts of the delivered chunks from..to, in order.
TextTurn(from, to) ==
    Content("model",
            [i \in 1..(to - from + 1) |-> TextPart(FragText(deliv[from + i - 1].k))],
            "Text")
Completed == pc = "idle" /\ lastStep.status = "returned" /\ lastStep.failure = "-"
TextOnly(i) == deliv[i].text /\ deliv[i].function_calls = <<>>

\* C21: a step with message m on history H, whose first response is one call
\* of an Active tool and nothing else and whose follow-up response is text
\* only, runs the tool once and ends with H followed by the turn of the user,
\* the call turn, the result turn with what the tool returned, and one turn
\* of the model with the text of the follow-up, in this order.
C21_ScenarioA ==
    ( /\ Completed
      /\ callback
      /\ Len(deliv) >= 2
      /\ deliv[1].level = 1
      /\ ~deliv[1].text
      /\ Len(deliv[1].function_calls) = 1
      /\ Has(loaded, deliv[1].function_calls[1])
      /\ \A i \in 2..Len(deliv) : deliv[i].level = 2 /\ TextOnly(i) )
    =>
    LET T == deliv[1].function_calls[1]
    IN /\ Count(events, "tool") = 1
       /\ Count(events, "exchange") = 2
       /\ Len(calls) = 1
       /\ calls[1].branch \in {"used", "use_failed"}
       /\ chat_history =
            pre \o << UserTurn(effective_user_message),
                      CallTurn(T),
                      ResultTurn(IF calls[1].branch = "used"
                                 THEN <<"hello">>
                                 ELSE ExecErrorText(T, <<"boom">>)),
                      TextTurn(2, Len(deliv)) >>

\* Scenario A: "hello", a call of the tool, which returns "hello", one text
C21_Witness ==
    /\ Completed
    /\ steps = 1
    /\ Len(deliv) = 2
    /\ chat_history = << UserTurn(<<"hello">>), CallTurn("A"), ResultTurn(<<"hello">>),
                         Content("model", <<TextPart(FragText(2))>>, "Text") >>

\* C22: a function call is handled at whatever depth of the chain it comes:
\* for every chunk without text that asks for a tool, in the first response,
\* in a follow-up response or in the response to a chained call, the tool it
\* asks for first is handled.
C22_NoDepthLimit ==
    callback =>
       \A i \in 1..Len(deliv) :
          (~deliv[i].text /\ deliv[i].function_calls # <<>>) =>
              \E j \in 1..Len(calls) :
                  /\ calls[j].level = deliv[i].level
                  /\ calls[j].name = Head(deliv[i].function_calls)
                  /\ calls[j].handled

\* C23: when a follow-up exchange is sent, at either level, the conversation
\* ends with the call turn of the function call it follows and, right after
\* it, the result turn of that call; they stay the last two turns while the
\* response to that exchange is read.
C23_PairBeforeFollowUp ==
    /\ []( pc \in {"stream2", "stream3"} =>
             /\ Len(chat_history) >= Len(pre) + 3
             /\ chat_history[Len(chat_history) - 1].kind = "Call"
             /\ chat_history[Len(chat_history)].kind = "ToolResult" )
    /\ [][ Exchanges(events') > Exchanges(events) /\ Exchanges(events') > 1 =>
             LET c == calls'[Len(calls) + 1]
                 n == Len(chat_history')
             IN /\ c.handled
                /\ n = Len(chat_history) + 2
                /\ chat_history'[n - 1] = CallTurn(c.name)
                /\ chat_history'[n].kind = "ToolResult"
                /\ chat_history'[n].role = "user" ]_vars

\* the exchange after a chained call of a missing component has been sent
C23_Witness ==
    /\ pc = "stream3"
    /\ Exchanges(events) = 3
    /\ Len(calls) = 2
    /\ calls[2].branch = "not_found"
    /\ chat_history[Len(chat_history) - 1] = CallTurn("C")
    /\ chat_history[Len(chat_history)] = ResultTurn(NotFoundText("C"))

\* C24: every function call the backend delivers in a step, wherever it comes
\* (several in one chunk, in a follow-up response), is handled.
C24_NoCallDropped ==
    callback => \A i \in 1..Len(calls) : calls[i].handled

C26_NoOpenStream ==
    [][ frags' > frags => open[Len(open)] = Exchanges(events) ]_vars

\* C26, amended: the exchanges of a step are nested.  The open streams are
\* those of at most three exchanges, in the order they were sent; a chunk is
\* read from the one sent last among them, a new exchange is sent only from
\* there, an earlier response is read on only when every later one is
\* finished, and no stream is open when the step has returned.
C26_StrictlyNested ==
    /\ []( /\ Len(open) <= 3
           /\ \A i, j \in 1..Len(open) : i < j => open[i] < open[j]
           /\ \A i \in 1..Len(open) : open[i] <= Exchanges(events)
           /\ (pc = "idle") = (open = <<>>) )
    /\ [][ frags' > frags => deliv'[Len(deliv')].level = Len(open) ]_vars
    /\ [][ (Exchanges(events') > Exchanges(events) /\ pc # "idle") =>
              /\ Len(open') >= 2
              /\ open'[Len(open')] = Exchanges(events')
              /\ \A i \in 1..(Len(open') - 1) : open'[i] = open[i] ]_vars

\* the first response is read on after its follow-up response has ended
C26_Witness ==
    /\ pc = "stream1"
    /\ open = <<1>>
    /\ Exchanges(events) = 2
    /\ Len(deliv) = 3
    /\ deliv[2].level = 2
    /\ deliv[3].level = 1

\* C27: a step ends by returning, never by raising: whatever the failure of
\* the backend and whatever the tools did, the agent is idle again with the
\* step returned.
C27_NeverPropagates ==
    /\ lastStep.status \in {"none", "running", "returned"}
    /\ (pc = "idle" /\ steps > 0) => lastStep.status = "returned"
    /\ (pc # "idle") => lastStep.status = "running"

\* a tool raised, then the backend failed with an error that is no ClientError
C27_Witness ==
    /\ pc = "idle"
    /\ lastStep.status = "returned"
    /\ lastStep.failure = "Exception"
    /\ \E i \in 1..Len(calls) : calls[i].branch = "use_failed"

\* C28: after every failure of the backend, of whatever kind, the step pauses
\* before it returns.
C28_BackoffAfterFailure ==
    Failed => lastStep.slept

\* C38: a refresh of a components directory that does not exist raises
\* nothing and leaves the registry with no descriptor and no Active component.
C38_MissingDirTolerated ==
    (lastOp.op = "refresh" /\ ~dirExists) =>
        /\ ~lastOp.raised
        /\ avail = <<>>
        /\ loaded = <<>>

(***************************************************************************)
(* The tool declarations.                                                  *)
(***************************************************************************)
\* The type tag the schema is to carry for an annotation.
Tag(a) ==
    CASE a = "bool" -> "boolean"
      [] a \in {"int", "float"} -> "number"
      [] OTHER -> "string"

\* The parameters of the use method other than its receiver.
Arguments == Tail(use_method.params)

\* C31: a declaration has exactly one property for every parameter of use
\* other than the receiver, in the order of the def, with the tag boolean for
\* bool, number for int and float, string for str, for no annotation and for
\* any other annotation; a parameter is required exactly when it has no
\* default value.
C31_TypeTagAndRequired ==
    ~declaration.none =>
        /\ Len(declaration.properties) = Len(Arguments)
        /\ \A i \in 1..Len(Arguments) :
              /\ declaration.properties[i] =
                    Property(Arguments[i].name, Tag(Arguments[i].annotation))
              /\ Count(declaration.required, Arguments[i].name) =
                    IF Arguments[i].has_default THEN 0 ELSE 1
        /\ \A j \in 1..Len(declaration.required) :
              \E i \in 1..Len(Arguments) :
                 declaration.required[j] = Arguments[i].name

C31_Witness ==
    /\ ~declaration.none
    /\ Len(declaration.properties) = 2
    /\ declaration.properties[1].type = "boolean"
    /\ declaration.properties[2].type = "number"
    /\ Arguments[1].has_default
    /\ declaration.required = <<Arguments[2].name>>

\* The names of the declarations of a tool list, in order.
ToolNames(tools) == [i \in 1..Len(tools) |-> tools[i].name]

\* The use of a component was a bound method at the latest build.
Usable(n) == lastBuild.methods[n].ismethod

\* C32: the tool list has exactly one declaration for each Active component
\* whose use is usable and none for any other, in the order of the active
\* set, each under the name of its component; so no two declarations share a
\* name and every name is that of a component Active at the build.
C32_OneToolPerUsableActive ==
    lastBuild.built =>
        /\ ToolNames(available_tools) = SelectSeq(lastBuild.active, Usable)
        /\ \A i, j \in 1..Len(available_tools) :
              i # j => available_tools[i].name # available_tools[j].name
        /\ \A i \in 1..Len(available_tools) :
              /\ ~available_tools[i].none
              /\ Count(lastBuild.active, available_tools[i].name) = 1

C32_Witness ==
    /\ lastBuild.built
    /\ lastBuild.active = <<"B", "A">>
    /\ ~Usable("B")
    /\ ToolNames(available_tools) = <<"A">>

\* C36: after a refresh, and until a component is loaded again, no component
\* is Active, and a tool list built then is empty.
C36_NoneActiveAfterRefresh ==
    /\ lastOp.op = "refresh" => loaded = <<>>
    /\ (lastBuild.built /\ lastBuild.after = "refresh") =>
          (lastBuild.active = <<>> /\ available_tools = <<>>)

C36_Witness ==
    /\ lastOp.op = "refresh"
    /\ gen = 2
    /\ avail # <<>>
    /\ \E i \in 1..Len(insts) : insts[i].destroys = 1
    /\ lastBuild.built
    /\ lastBuild.after = "refresh"
    /\ lastBuild.scans = 2

\* C37: until the first refresh the registry has no descriptor; a load or a
\* loadAll before it constructs and activates nothing, and a tool list built
\* before it is empty.
C37_EmptyBeforeFirstRefresh ==
    gen = 0 =>
        /\ avail = <<>>
        /\ loaded = <<>>
        /\ insts = <<>>
        /\ lastBuild.built => available_tools = <<>>

C37_Witness ==
    /\ gen = 0
    /\ lastOp.op = "loadAll"
    /\ lastBuild.built
    /\ lastBuild.after = "loadAll"
    /\ available_tools = <<>>

(***************************************************************************)
(* The chat loop.                                                          *)
(***************************************************************************)
\* The line is an exit directive: exit or quit, in whatever case.
ExitDirective(u) == u \in {"exit", "Exit", "QUIT"}

\* C33: a pass of the loop that reads an exit directive ends the loop, and
\* appends no turn, records no request with the rate limiter and sends no
\* exchange; once the loop has ended nothing of this happens any more; a pass
\* that reads anything else leaves the loop running.
C33_ExitEndsLoop ==
    /\ [][chat_pc = "reading" =>
             IF ExitDirective(lastInput'.input)
             THEN /\ chat_pc' = "ended"
                  /\ lastInput'.events = <<>>
                  /\ UNCHANGED <<cli_history, request_timestamps, now>>
             ELSE chat_pc' = "reading"]_vars
    /\ [][chat_pc = "ended" =>
             UNCHANGED <<chat_pc, cli_history, request_timestamps>>]_vars

C33_Witness ==
    /\ chat_pc = "ended"
    /\ lastInput.input = "QUIT"
    /\ lastInput.read = 3
    /\ Len(cli_history) = 5
    /\ Len(request_timestamps) > 0

(***************************************************************************)
(* The step and its caller.                                                *)
(***************************************************************************)
\* The text the turn of the user is to carry for an interrupt.
Expected(m) == IF m # <<>> THEN m ELSE <<"Your Inner voice says you to proceed.">>

\* The turns the running or latest step has in the conversation.
StepTurns == SubSeq(chat_history, Len(pre) + 1, Len(chat_history))

\* C34: a step starts by appending one User turn, and the first exchange is
\* sent with it in the conversation; its text is the interrupt when one is
\* given and is not empty, and the fixed phrase otherwise; no other User turn
\* is appended while the step runs.
C34_OneUserTurnFirst ==
    /\ [][(pc = "idle" /\ pc' # "idle") =>
             /\ chat_history' =
                   Append(chat_history, UserTurn(Expected(interrupt_message')))
             /\ events' = <<"acquire", "exchange">>]_vars
    /\ []((pc # "idle" \/ Completed) =>
             /\ Len(StepTurns) >= 1
             /\ StepTurns[1] = UserTurn(Expected(interrupt_message))
             /\ \A i \in 2..Len(StepTurns) : StepTurns[i].kind # "User")

C34_Witness ==
    /\ Completed
    /\ interrupt_message = <<>>
    /\ steps = 2
    /\ pre # <<>>
    /\ pre[1] = UserTurn(<<"hello">>)
    /\ Len(StepTurns) >= 3

\* C35: no transition of a step, the runs of tools through the registry
\* included, changes the active set or the descriptor set; no operation of
\* the registry changes the conversation or what a step has buffered.
C35_ExclusiveOwnership ==
    /\ [][(pc # "idle" \/ pc' # "idle") => UNCHANGED <<loaded, avail>>]_vars
    /\ [][lastOp' # lastOp =>
             UNCHANGED <<chat_history, model_response_parts, pending>>]_vars

C35_Witness ==
    /\ Completed
    /\ gen = 2
    /\ lastOp.op = "loadAll"
    /\ Len(insts) = 2
    /\ Has(loaded, "A")
    /\ pre # <<>>
    /\ \E i \in 1..Len(calls) : calls[i].branch = "used"

\* The places of the text turns of the model among the turns of the step.
TextTurns == {i \in 1..Len(StepTurns) : StepTurns[i].kind = "Text"}

\* A delivered chunk whose text the step reads: a chunk of the first response
\* with text and no function call, a chunk of a follow-up response with text.
ReadAsText(d) == d.text /\ (d.level = 1 => d.function_calls = <<>>)

\* The texts a sequence of delivered chunks holds, in order.
TextsOf(ds) == [i \in 1..Len(ds) |-> TextPart(FragText(ds[i].k))]

\* C39: while a step runs it appends no text turn of the model; when it has
\* returned it has appended at most one, as the last of its turns, after every
\* call turn and result turn, and that turn holds the texts the step read, of
\* whatever response, in the order they came; a step that got no text has
\* appended none.
C39_OneTextTurnLast ==
    /\ pc # "idle" => TextTurns = {}
    /\ (pc = "idle" /\ lastStep.status = "returned") =>
          /\ Cardinality(TextTurns) <= 1
          /\ \A i \in TextTurns :
                /\ i = Len(StepTurns)
                /\ StepTurns[i].parts = TextsOf(SelectSeq(deliv, ReadAsText))
          /\ (\A j \in 1..Len(deliv) : ~deliv[j].text) => TextTurns = {}
          /\ (Completed /\ \E j \in 1..Len(deliv) : ReadAsText(deliv[j])) =>
                TextTurns # {}

\* text before a call, the call handled, text in the follow-up
C39_Witness ==
    /\ Completed
    /\ Len(deliv) = 3
    /\ deliv[1].level = 1 /\ ReadAsText(deliv[1])
    /\ deliv[2].level = 1 /\ deliv[2].function_calls # <<>>
    /\ deliv[3].level = 2 /\ ReadAsText(deliv[3])
    /\ TextTurns = {Len(StepTurns)}
    /\ Len(StepTurns) = 4
    /\ Len(StepTurns[4].parts) = 2

\* C40: with finite response streams a step that has started returns; it
\* sends no more exchanges than one and one for each call it handles, and runs
\* no more tools than the calls it handles; and no wait of the rate limiter
\* is longer than one window.
C40_StepTerminates ==
    /\ (pc # "idle") ~> (pc = "idle")
    /\ [](/\ Exchanges(events) <= 1 + Cardinality(HandledCalls)
          /\ Count(events, "tool") <= Cardinality(HandledCalls))
    /\ [][now' <= now + Window]_vars

\* a step of three exchanges that waited a whole window and returned
C40_Witness ==
    /\ pc = "idle"
    /\ lastStep.status = "returned"
    /\ Exchanges(events) = 3
    /\ now = Window
    /\ \E i \in 1..Len(calls) : calls[i].handled
====
